---- MODULE Spec2Model ----
(***************************************************************************)
(* Step-execution engine of stagehand-test-agent: TestOrchestrator.run and *)
(* executeStep, TestAgent.processStep, planGivenStep, planWhenStep,        *)
(* verifyThenStep and the self-healing loop planWithSelfHealing.           *)
(*                                                                         *)
(* Strings are sequences whose elements are single characters or, for the  *)
(* fixed fragments of a message template, one token per fragment.          *)
(***************************************************************************)
EXTENDS Integers, Sequences, FiniteSets, TLC

\* ------------------------------------------------------------------ bounds
\* Longest background block and longest scenario of a generated document.
MaxBackground == 1
MaxSteps == 1
\* Most candidates of one locate result, and most rows of an expected or an
\* extracted table, of a single planner or verification call.
MaxObserved == 3
MaxRows == 2
\* Deepest nesting of the values of a recorded command.
MaxDepth == 2
\* Most page events (console messages, failed requests, responses) of a
\* run.
MaxEvents == 6
\* Most scenarios run in one session of main.
MaxScenarios == 2

\* --------------------------------------------------------------- strings
Lower(c) ==
  CASE c = "A" -> "a" [] c = "B" -> "b" [] c = "C" -> "c" [] c = "D" -> "d"
    [] c = "E" -> "e" [] c = "F" -> "f" [] c = "G" -> "g" [] c = "H" -> "h"
    [] c = "I" -> "i" [] c = "J" -> "j" [] c = "K" -> "k" [] c = "L" -> "l"
    [] c = "M" -> "m" [] c = "N" -> "n" [] c = "O" -> "o" [] c = "P" -> "p"
    [] c = "Q" -> "q" [] c = "R" -> "r" [] c = "S" -> "s" [] c = "T" -> "t"
    [] c = "U" -> "u" [] c = "V" -> "v" [] c = "W" -> "w" [] c = "X" -> "x"
    [] c = "Y" -> "y" [] c = "Z" -> "z"
    [] OTHER -> c

\* String.prototype.toLowerCase
ToLowerCase(s) == [k \in 1..Len(s) |-> Lower(s[k])]

\* s has p at position k (1-based)
HasAt(s, k, p) ==
  /\ k >= 1
  /\ k + Len(p) - 1 <= Len(s)
  /\ SubSeq(s, k, k + Len(p) - 1) = p

\* String.prototype.includes
Includes(s, p) == \E k \in 1..(Len(s) + 1) : HasAt(s, k, p)

\* String.prototype.startsWith
StartsWith(s, p) == HasAt(s, 1, p)

\* ------------------------------------------------------- scenario steps
\* step.keyword values the normalizer may emit (any string: z.string()).
KwGiven == <<"G", "i", "v", "e", "n">>
KwWhen == <<"W", "h", "e", "n">>
KwThen == <<"T", "h", "e", "n">>
KwAnd == <<"A", "n", "d">>
KwBut == <<"B", "u", "t">>
KwAndWhen == <<"A", "n", "d", " ", "W", "H", "E", "N">>
KwThenGiven == <<"T", "h", "e", "n", " ", "g", "i", "v", "e", "n">>

\* step.text values
UrlA == <<"h", "t", "t", "p", ":", "/", "/", "a">>
UrlSecureB == <<"h", "t", "t", "p", "s", ":", "/", "/", "b">>
TxtGoA == <<"g", "o", " ">> \o UrlA
TxtQuotedB == <<"\"">> \o UrlSecureB \o <<"\"", " ", "u", "p">>
TxtSchemeOnly == <<"h", "t", "t", "p", ":", "/", "/", " ">>
TxtTap == <<"t", "a", "p">>
TxtSee == <<"s", "e", "e">>

\* step.table: a sequence of rows, a row the sequence of its
\* <<column, value>> entries in Object.keys order.  NoTable is an absent or
\* empty table.
NoTable == <<>>
ColName == <<"n">>
ColValue == <<"v">>
RowFull == << <<ColName, <<"i", "d">> >>, <<ColValue, <<"7">> >> >>
RowOneColumn == << <<ColName, <<"x">> >> >>
TableForm == <<RowOneColumn, RowFull>>

StepSet ==
  { [keyword |-> KwGiven, text |-> TxtQuotedB, table |-> NoTable],
    [keyword |-> KwThenGiven, text |-> TxtSchemeOnly, table |-> NoTable],
    [keyword |-> KwWhen, text |-> TxtTap, table |-> NoTable],
    [keyword |-> KwAndWhen, text |-> TxtGoA, table |-> TableForm],
    [keyword |-> KwThen, text |-> TxtSee, table |-> NoTable],
    [keyword |-> KwAnd, text |-> TxtSee, table |-> TableForm],
    [keyword |-> KwBut, text |-> TxtTap, table |-> NoTable] }

\* ----------------------------------------------------------- processStep
\* The branch processStep takes for a keyword.
ClassifyThenFirst(keyword) ==
  LET kw == ToLowerCase(keyword) IN
  IF Includes(kw, <<"t", "h", "e", "n">>) \/ Includes(kw, <<"a", "n", "d">>)
  THEN "then"
  ELSE IF Includes(kw, <<"g", "i", "v", "e", "n">>) THEN "given"
  ELSE IF Includes(kw, <<"w", "h", "e", "n">>) THEN "when"
  ELSE "unknown"

Classify(keyword) ==
  LET kw == ToLowerCase(keyword) IN
  IF Includes(kw, <<"g", "i", "v", "e", "n">>) THEN "given"
  ELSE IF Includes(kw, <<"w", "h", "e", "n">>) THEN "when"
  ELSE IF Includes(kw, <<"t", "h", "e", "n">>) \/ Includes(kw, <<"a", "n", "d">>)
       THEN "then"
  ELSE "unknown"

\* ---------------------------------------------------------- planGivenStep
\* Characters excluded by the negated class of the URL pattern: white
\* space, double quote, backquote, angle brackets and parentheses.
\* (the backquote character is written as the token "BACKQUOTE".)
UrlStop == {" ", "\"", "BACKQUOTE", "<", ">", "(", ")"}

\* Length of the scheme https?:// at position k of t, 0 if there is none.
SchemeLenAt(t, k) ==
  IF HasAt(t, k, <<"h", "t", "t", "p", "s", ":", "/", "/">>) THEN 8
  ELSE IF HasAt(t, k, <<"h", "t", "t", "p", ":", "/", "/">>) THEN 7
  ELSE 0

\* The URL pattern (scheme, then one or more non-excluded characters)
\* matches at position k of t.
UrlMatchesAtSchemeOnly(t, k) == SchemeLenAt(t, k) > 0

UrlMatchesAt(t, k) ==
  /\ SchemeLenAt(t, k) > 0
  /\ k + SchemeLenAt(t, k) <= Len(t)
  /\ t[k + SchemeLenAt(t, k)] \notin UrlStop

\* Last position of the greedy match that starts at k.
UrlMatchEnd(t, k) ==
  LET first == k + SchemeLenAt(t, k)
      ends == {j \in first..Len(t) : \A m \in first..j : t[m] \notin UrlStop}
  IN IF ends = {} THEN first - 1
     ELSE CHOOSE j \in ends : \A j2 \in ends : j2 <= j

\* step.text.match(...)  : expectedUrl, or <<>> for null.
ExpectedUrl(t) ==
  LET starts == {k \in 1..Len(t) : UrlMatchesAt(t, k)} IN
  IF starts = {} THEN <<>>
  ELSE LET k == CHOOSE k1 \in starts : \A k2 \in starts : k1 <= k2
       IN SubSeq(t, k, UrlMatchEnd(t, k))

AboutBlank == <<"a", "b", "o", "u", "t", ":", "b", "l", "a", "n", "k">>

\* The URL check of planGivenStep passes for the location currentUrl.
UrlVerifiedExact(currentUrl, expectedUrl) == currentUrl = expectedUrl

UrlVerified(currentUrl, expectedUrl) ==
  ~(currentUrl = AboutBlank \/ ~StartsWith(currentUrl, expectedUrl))

\* ------------------------------------------------------- error messages
\* Thrown values are Error objects; the model keeps their message.  The
\* fixed fragments of a template are one token each.
NoError == [null |-> TRUE]
Err(msg) == [message |-> msg]

\* Outcome of an awaited call: it throws, or it returns a value.
Thrown(msg) == [ok |-> FALSE, error |-> Err(msg)]
Value(v) == [ok |-> TRUE, value |-> v]

\* Messages of a failing collaborator call (LLM, page automation, disk).
MsgTimeout == <<"Timeout 30000ms exceeded">>
MsgQuota == <<"quota exceeded">>
MsgDisk == <<"EACCES">>

ElementNotFoundMessage(observeInstruction) ==
  <<"element not found: \"">> \o observeInstruction \o <<"\"">>

IntentMismatchMessage(intendedAction) ==
  <<"no element matches the AI intent [", intendedAction, "]">>

PreconditionFailedMessage(expectedUrl, currentUrl) ==
  <<"precondition verification failed: navigation failed; expected prefix: ">>
    \o expectedUrl \o <<"; actual: ">> \o currentUrl

VerificationFailedMessageNoStep(text) == <<"a verification step failed">>

VerificationFailedMessage(text) ==
  <<"verification step [">> \o text \o <<"] failed">>

PlanningFailedMessageNoStep(text, lastError) ==
  <<"planning failed after 2 self-healing attempts; last failure: ">>
    \o (IF lastError = NoError THEN <<"undefined">> ELSE lastError.message)

PlanningFailedMessage(text, lastError) ==
  <<"planning of step [">> \o text
    \o <<"] failed after 2 self-healing attempts; last failure: ">>
    \o (IF lastError = NoError THEN <<"undefined">> ELSE lastError.message)

UserCancelMessage == <<"the user cancelled the step">>

ScreenshotFailedSuffix(msg) ==
  <<"\nthe screenshot failed too: ">> \o msg

\* details += ... in the catch block of the screenshot.
DetailsAfterScreenshotFailureReplaced(dtl, msg) == ScreenshotFailedSuffix(msg)
DetailsAfterScreenshotFailure(dtl, msg) == dtl \o ScreenshotFailedSuffix(msg)

\* ----------------------------------------------------------- planWhenStep
\* Candidates page.observe may return.  A candidate is a record; the
\* method field is optional.
MClick == <<"c", "l", "i", "c", "k">>
MFill == <<"F", "i", "l", "l">>
CandClick == [selector |-> "#ok", method |-> MClick]
CandFill == [selector |-> "#name", method |-> MFill]
CandBare == [selector |-> "#div"]

ObservedSet == { <<>>, <<CandClick>>, <<CandFill, CandClick>> }

\* Candidates and intents of a single planner call examined on its own.
CandType == [selector |-> "#mail", method |-> <<"t", "y", "p", "e">>]
CandScroll ==
  [selector |-> "#list", method |-> <<"s", "c", "r", "o", "l", "l", "T", "o">>]
CandidateSet == {CandClick, CandFill, CandType, CandScroll, CandBare}
AllIntents ==
  {"click", "double_click", "fill", "press", "select", "hover", "scroll",
   "drag", "unknown"}

ObsQuery == <<"b", "t", "n">>
IntentSet == {"click", "unknown"}
ExecutorPlans ==
  [observeInstruction : {ObsQuery}, intendedAction : IntentSet]

SCROLL_METHODS ==
  { <<"s", "c", "r", "o", "l", "l">>,
    <<"s", "c", "r", "o", "l", "l", "t", "o">>,
    <<"s", "c", "r", "o", "l", "l", "i", "n", "t", "o", "v", "i", "e", "w">>,
    <<"s", "c", "r", "o", "l", "l", "b", "y", "p", "i", "x", "e", "l",
      "o", "f", "f", "s", "e", "t">>,
    <<"m", "o", "u", "s", "e", ".", "w", "h", "e", "e", "l">>,
    <<"n", "e", "x", "t", "c", "h", "u", "n", "k">>,
    <<"p", "r", "e", "v", "c", "h", "u", "n", "k">> }

\* The filter callback of planWhenStep.
MethodMatchesIntent(obsResult, intendedAction) ==
  IF "method" \notin DOMAIN obsResult THEN FALSE
  ELSE LET method == ToLowerCase(obsResult.method) IN
    IF method = <<>> THEN FALSE
    ELSE CASE intendedAction = "click" -> method = MClick
           [] intendedAction = "double_click" ->
                \/ method = <<"d", "o", "u", "b", "l", "e", "c", "l", "i", "c", "k">>
                \/ method = <<"d", "b", "l", "c", "l", "i", "c", "k">>
           [] intendedAction = "fill" ->
                method = <<"f", "i", "l", "l">> \/ method = <<"t", "y", "p", "e">>
           [] intendedAction = "press" -> method = <<"p", "r", "e", "s", "s">>
           [] intendedAction = "select" ->
                Includes(method, <<"s", "e", "l", "e", "c", "t">>)
           [] intendedAction = "hover" -> method = <<"h", "o", "v", "e", "r">>
           [] intendedAction = "scroll" -> method \in SCROLL_METHODS
           [] intendedAction = "drag" ->
                method = <<"d", "r", "a", "g", "a", "n", "d", "d", "r", "o", "p">>
           [] OTHER -> FALSE

\* Array.prototype.filter with the callback above.
RECURSIVE FilterByIntentLastFirst(_, _)
FilterByIntentLastFirst(observed, intendedAction) ==
  IF observed = <<>> THEN <<>>
  ELSE LET rest == FilterByIntentLastFirst(Tail(observed), intendedAction) IN
       IF MethodMatchesIntent(Head(observed), intendedAction)
       THEN rest \o <<Head(observed)>>
       ELSE rest

RECURSIVE FilterByIntent(_, _)
FilterByIntent(observed, intendedAction) ==
  IF observed = <<>> THEN <<>>
  ELSE LET rest == FilterByIntent(Tail(observed), intendedAction) IN
       IF MethodMatchesIntent(Head(observed), intendedAction)
       THEN <<Head(observed)>> \o rest
       ELSE rest

\* What the planner closure does with the located candidates: the returned
\* candidate, or the thrown error.
FiltersByIntentAlways(intendedAction, observed) == TRUE
FiltersByIntent(intendedAction, observed) ==
  intendedAction # "unknown" /\ Len(observed) > 1

SelectCandidateOrNothing(plan, observed) ==
  IF Len(observed) = 0
  THEN [ok |-> TRUE, plan |-> [nothing |-> TRUE]]
  ELSE [ok |-> TRUE, plan |-> observed[1]]

SelectCandidate(plan, observed) ==
  IF Len(observed) = 0
  THEN [ok |-> FALSE,
        error |-> Err(ElementNotFoundMessage(plan.observeInstruction))]
  ELSE IF FiltersByIntent(plan.intendedAction, observed)
  THEN LET filtered == FilterByIntent(observed, plan.intendedAction) IN
       IF Len(filtered) > 0
       THEN [ok |-> TRUE, plan |-> filtered[1]]
       ELSE [ok |-> FALSE,
             error |-> Err(IntentMismatchMessage(plan.intendedAction))]
  ELSE [ok |-> TRUE, plan |-> observed[1]]

\* fillFormFromTable: the act instructions issued for a table, in row
\* order; rows that are skipped issue none.
FillInstruction(fieldName, value) ==
  <<"'">> \o fieldName \o <<"' field: type [">> \o value \o <<"]">>

RECURSIVE FillInstructions(_)
FillInstructions(table) ==
  IF table = <<>> THEN <<>>
  ELSE LET row == Head(table)
           rest == FillInstructions(Tail(table))
       IN IF Len(row) < 2 THEN rest
          ELSE IF row[1][2] = <<>> THEN rest
          ELSE <<FillInstruction(row[1][2], row[2][2])>> \o rest

\* --------------------------------------------------------- verifyThenStep
\* row[key] of a row given as its <<column, value>> entries; <<>> stands
\* for undefined (and for the empty string, which is falsy as well).
RowGet(row, key) ==
  IF \E k \in 1..Len(row) : row[k][1] = key
  THEN row[CHOOSE k \in 1..Len(row) : row[k][1] = key][2]
  ELSE <<>>

\* The every(...) callback: every expected value is included in the
\* extracted value of the same column, which must be truthy.
RowMatches(expectedRow, actualRow) ==
  \A k \in 1..Len(expectedRow) :
    /\ RowGet(actualRow, expectedRow[k][1]) # <<>>
    /\ Includes(RowGet(actualRow, expectedRow[k][1]), expectedRow[k][2])

\* Table branch of verifyThenStep for the extracted items.
VerifyTableByPosition(table, extractedData) ==
  IF Len(extractedData) = 0 THEN FALSE
  ELSE \A e \in 1..Len(table) :
         /\ e <= Len(extractedData)
         /\ RowMatches(table[e], extractedData[e])

VerifyTable(table, extractedData) ==
  IF Len(extractedData) = 0 THEN FALSE
  ELSE \A e \in 1..Len(table) :
         \E a \in 1..Len(extractedData) : RowMatches(table[e], extractedData[a])

ExtractedTables ==
  { <<>>,
    << << <<ColName, <<"x", "y">> >>, <<ColValue, <<"1">> >> >>,
       << <<ColName, <<"i", "d">> >>, <<ColValue, <<"7", "0">> >> >> >>,
    << << <<ColName, <<"i", "d">> >>, <<ColValue, <<"7">> >> >> >> }

\* Expected rows of a step table and rows page.extract may return, for a
\* single verification call examined on its own.
ExpectedRowSet ==
  { << <<ColName, <<"7">> >> >>,
    << <<ColName, <<>> >> >>,
    << <<ColName, <<"7">> >>, <<ColValue, <<"x">> >> >> }
ActualRowSet ==
  { << <<ColName, <<"7", "0">> >> >>,
    << <<ColName, <<>> >> >>,
    << <<ColName, <<"7">> >>, <<ColValue, <<"x">> >> >>,
    << <<ColName, <<"7">> >>, <<ColValue, <<"X">> >> >>,
    << <<ColValue, <<"x">> >> >> }

\* A field value of an extraction result with its typeof: a string, or a
\* value of another type.
Str(v) == [type |-> "string", value |-> v]
NotAString == [type |-> "object"]
IsString(result, field) ==
  field \in DOMAIN result /\ result[field].type = "string"

\* getSafeTextFromResult: result is a record that may carry the fields
\* extraction and page_text.
getSafeTextFromResultPageFirst(result) ==
  IF IsString(result, "page_text") THEN result.page_text.value
  ELSE IF IsString(result, "extraction") THEN result.extraction.value
  ELSE <<>>

getSafeTextFromResult(result) ==
  IF IsString(result, "extraction") THEN result.extraction.value
  ELSE IF IsString(result, "page_text") THEN result.page_text.value
  ELSE <<>>

\* Text branch: the operator applied to the extracted text.
VerifyText(assertion, actual) ==
  CASE assertion.operator = "toContain" -> Includes(actual, assertion.expected)
    [] assertion.operator = "notToContain" -> ~Includes(actual, assertion.expected)
    [] assertion.operator = "toEqual" -> actual = assertion.expected
    [] OTHER -> FALSE

TxtWelcome == <<"h", "i">>
ExtractResults ==
  { [extraction |-> Str(<<"o", "h", "i", "o">>)],
    [page_text |-> Str(<<"h", "i">>)],
    [extraction |-> Str(<<"b", "y", "e">>), page_text |-> Str(<<"h", "i">>)],
    [extraction |-> NotAString, page_text |-> Str(<<"h", "i">>)],
    [other |-> Str(<<"h", "i">>)] }

\* Texts of a single text assertion examined on its own.
ExpectedWelcome == <<"W", "e", "l", "c", "o", "m", "e">>
ActualWelcomeBack ==
  ExpectedWelcome \o <<" ", "b", "a", "c", "k", ",", " ", "A", "l", "i", "c", "e", "!", " ">>
    \o ExpectedWelcome \o <<".">>
TextExtractResults ==
  ExtractResults \cup
  { [extraction |-> Str(ActualWelcomeBack)],
    [extraction |-> Str(ExpectedWelcome)],
    [extraction |-> Str(<<>>), page_text |-> Str(ExpectedWelcome)],
    [extraction |-> NotAString, page_text |-> NotAString],
    [extraction |-> NotAString] }
TextAssertions ==
  [expected : {<<>>, TxtWelcome, ExpectedWelcome, <<"w", "e", "l", "c", "o", "m", "e">>},
   operator : {"toContain", "notToContain", "toEqual"}]

StateChecks ==
  {"exists", "not_exists", "visible", "hidden", "enabled", "disabled",
   "checked", "unchecked", "value_equals"}

VerifierPlans ==
  [assertionType : {"text"}, extractInstruction : {TxtSee},
   assertion : [expected : {TxtWelcome},
                operator : {"toContain", "notToContain", "toEqual"}]]
  \cup
  [assertionType : {"element_state"}, observeInstruction : {ObsQuery},
   assertion : [check : StateChecks, expectedValue : {<<"7">>}]]

\* What the locator answers to the one query a check makes.
ProbeAnswers(check) ==
  CASE check \in {"exists", "not_exists"} -> {0, 1}
    [] check = "value_equals" -> {<<"7">>, <<"8">>}
    [] OTHER -> BOOLEAN

\* The switch over plan.assertion.check for the answer of the locator.
VerifyState(assertion, answer) ==
  CASE assertion.check = "exists" -> answer > 0
    [] assertion.check = "not_exists" -> answer = 0
    [] assertion.check \in {"visible", "hidden", "enabled", "disabled", "checked"}
         -> answer
    [] assertion.check = "unchecked" -> ~answer
    [] assertion.check = "value_equals" -> answer = assertion.expectedValue
    [] OTHER -> FALSE

\* observed[0] resolved to a selector: selector, else xpath, else none.
HasSelector(target) ==
  \/ "selector" \in DOMAIN target
  \/ "xpath" \in DOMAIN target

\* The element_state branch reaches the locator query of its switch.
ProbesLocator(observed) == Len(observed) > 0 /\ HasSelector(observed[1])

CandXpathOnly == [xpath |-> "/html/body/a", method |-> MClick]
CandNoLocator == [method |-> MClick]
VerifyObservedSet == { <<>>, <<CandClick>>, <<CandXpathOnly>>, <<CandNoLocator>> }

\* ------------------------------------------------------------------ state
VARIABLES
  mode,             \* ExecutionContext.mode
  gherkinDocument,  \* ExecutionContext.gherkinDocument
  stepResults,      \* ExecutionContext.stepResults
  rpc,              \* position of TestOrchestrator.run
  pos,              \* number of steps the two for-loops of run dispatched
  spc,              \* position of executeStep / processStep for that step
  i,                \* planWithSelfHealing: loop counter
  lastError,        \* planWithSelfHealing: lastError
  currentText,      \* planWithSelfHealing: currentText
  attempts,         \* planner calls of the processStep call, in call order
  heals,            \* healing LLM calls of the processStep call, in order
  returned,         \* value processStep returned to executeStep
  details,          \* executeStep: message of the caught error
  navigations,      \* page.goto calls of the current step, with their outcome
  verifications,    \* verifyThenStep calls of the current step, with outcome
  executed,         \* page.act(plan) calls of executeStep for the current step
  warned,           \* processStep logged the unknown-keyword warning
  call,             \* a single planner or verification call: inputs, result
  consoleLogs,      \* ExecutionContext.consoleLogs
  networkErrors,    \* ExecutionContext.networkErrors
  eventCount,       \* page events delivered to the handlers of run
  confirmations,    \* cli.confirm calls of run: for the plan, for steps
  lastAnswer,       \* what the last cli.confirm call of run returned
  listeners,        \* the three page handlers of run are attached
  tracing,          \* the tracing of the browser context
  summary,          \* what logReport was given
  report,           \* what generateReport wrote
  rejection,        \* the error run rejected with
  session           \* main: its position, arguments, locals and effects

runVars ==
  <<mode, gherkinDocument, stepResults, rpc, pos, spc, i, lastError,
    currentText, attempts, heals, returned, details, navigations,
    verifications, executed, warned, confirmations, lastAnswer, listeners,
    tracing,
    summary, report, rejection, session>>

diagVars == <<consoleLogs, networkErrors, eventCount>>
endVars == <<listeners, tracing, summary, report, rejection>>
auxVars == <<call, diagVars, session, confirmations, lastAnswer, endVars>>

vars == <<runVars, call, diagVars>>

ctxVars == <<mode, gherkinDocument, stepResults>>
pshVars == <<i, lastError, currentText, attempts, heals>>
logVars == <<navigations, verifications, executed, warned>>

ExecutionMode == {"autonomous", "interactive", "interactive:auto"}

\* mode.startsWith("interactive") over the three modes
StartsWithInteractive(m) == m \in {"interactive", "interactive:auto"}

NoDocument == [null |-> TRUE]

BoundedSeq(S, n) == UNION {[1..k -> S] : k \in 0..n}

\* Documents the normalizer may return; an absent background is the empty
\* sequence.  A background holds the preconditions shared by the scenarios
\* (Given steps and their And continuations).
BackgroundStepSet == {s \in StepSet : s.keyword \in {KwGiven, KwAnd}}

DocumentSet ==
  [background : BoundedSeq(BackgroundStepSet, MaxBackground),
   steps : BoundedSeq(StepSet, MaxSteps)]

\* The steps of run in dispatch order: the background loop, then the loop
\* over scenarios[0].steps.
AllStepsScenarioFirst(document) == document.steps \o document.background
AllSteps(document) == document.background \o document.steps

\* The step executeStep was last called with.
CurStep == AllSteps(gherkinDocument)[pos]

\* `${step.keyword} ${step.text}`
FullStep(step) == step.keyword \o <<" ">> \o step.text

NoValue == [kind |-> "none"]
VoidValue == [kind |-> "void"]
BoolValue(b) == [kind |-> "boolean", value |-> b]
PlanValue(c) == [kind |-> "plan", plan |-> c]

NoDetails == <<>>
NoCall == [op |-> "none"]

NoSession == [pc |-> "start"]
NoAnswer == [given |-> FALSE]
NoConfirmations == [plan |-> 0, step |-> 0]
NoSummary == [logged |-> FALSE]
NoReport == [written |-> FALSE]

Init ==
  /\ mode \in ExecutionMode
  /\ gherkinDocument = NoDocument
  /\ stepResults = <<>>
  /\ rpc = "idle"
  /\ pos = 0
  /\ spc = "none"
  /\ i = 0
  /\ lastError = NoError
  /\ currentText = <<>>
  /\ attempts = <<>>
  /\ heals = <<>>
  /\ returned = NoValue
  /\ details = NoDetails
  /\ navigations = <<>>
  /\ verifications = <<>>
  /\ executed = <<>>
  /\ warned = FALSE
  /\ call = NoCall
  /\ consoleLogs = <<>>
  /\ networkErrors = <<>>
  /\ eventCount = 0
  /\ confirmations = NoConfirmations
  /\ lastAnswer = NoAnswer
  /\ listeners = FALSE
  /\ tracing = "idle"
  /\ summary = NoSummary
  /\ report = NoReport
  /\ rejection = NoError
  /\ session = NoSession

\* ExecutionContext.addResult: push onto stepResults.
addResultOverwriting(results, result) == <<result>>
addResult(results, result) == Append(results, result)

\* -------------------------------------------------- TestOrchestrator.run
\* Each executeStep call of the two for-loops is awaited: the loop goes on
\* (or ends) only when the previous call has settled.
PreviousStepSettledAlways == TRUE
PreviousStepSettled == spc \in {"none", "recorded"}

\* run up to the call of the normalizer: tracing started, listeners on.
\* The catch block of run logs the error; the finally block follows.
RunCaughtRethrown(error) == "done"
RunCaught(error) == "finally"

\* run up to normalize: fs.mkdir ahead of the try block, tracing.start
\* and page.on inside it.
RunStart ==
  /\ rpc = "idle"
  /\ \/ /\ rpc' = "done"
        /\ rejection' = Err(MsgDisk)
        /\ UNCHANGED <<listeners, tracing>>
     \/ /\ rpc' = RunCaught(Err(MsgTimeout))
        /\ UNCHANGED <<listeners, tracing, rejection>>
     \/ /\ rpc' = "normalize"
        /\ tracing' = "started"
        /\ listeners' = TRUE
        /\ UNCHANGED rejection
  /\ UNCHANGED <<ctxVars, pos, spc, pshVars, returned, details, logVars>>
  /\ UNCHANGED <<call, diagVars, session, confirmations, lastAnswer, summary,
                 report>>

\* normalize returns a document (stored in the context) or throws.
Normalize ==
  /\ rpc = "normalize"
  /\ \/ /\ \E d \in DocumentSet : gherkinDocument' = d
        /\ rpc' = IF StartsWithInteractive(mode) THEN "confirmPlan" ELSE "steps"
     \/ /\ rpc' = RunCaught(Err(MsgQuota))
        /\ UNCHANGED gherkinDocument
  /\ UNCHANGED <<mode, stepResults, pos, spc, pshVars, returned, details, logVars>>
  /\ UNCHANGED auxVars

\* The answer to the question about the plan: declining returns from the
\* try block.
AfterPlanAnswerIgnored(proceed) == "steps"
AfterPlanAnswer(proceed) == IF proceed THEN "steps" ELSE "finally"

\* cli.confirm for the plan: declining returns from the try block.
ConfirmPlan ==
  /\ rpc = "confirmPlan"
  /\ \E proceed \in BOOLEAN :
       /\ rpc' = AfterPlanAnswer(proceed)
       /\ lastAnswer' = [given |-> TRUE, proceed |-> proceed]
  /\ confirmations' = [confirmations EXCEPT !.plan = @ + 1]
  /\ UNCHANGED <<ctxVars, pos, spc, pshVars, returned, details, logVars>>
  /\ UNCHANGED <<call, diagVars, session, endVars>>

\* Both for-loops are exhausted: run leaves the try block.
RunLoopEnd ==
  /\ rpc = "steps"
  /\ PreviousStepSettled
  /\ pos >= Len(AllSteps(gherkinDocument))
  /\ rpc' = "finally"
  /\ UNCHANGED <<ctxVars, pos, spc, pshVars, returned, details, logVars>>
  /\ UNCHANGED auxVars

\* cli.logReport(results): the counts of the summary.
CountStatus(results, status) ==
  Cardinality({k \in 1..Len(results) : results[k].status = status})
logReport(results) ==
  [logged |-> TRUE, total |-> Len(results),
   passed |-> CountStatus(results, "pass"),
   failed |-> CountStatus(results, "fail")]

\* The finally block: page.off for the three handlers, tracing.stop,
\* logReport, generateReport.  tracing.stop and the file writes of
\* generateReport may throw, and run rejects with that error.
RunFinally ==
  /\ rpc = "finally"
  /\ rpc' = "done"
  /\ listeners' = FALSE
  /\ \/ /\ rejection' = Err(MsgTimeout)
        /\ UNCHANGED <<tracing, summary, report>>
     \/ /\ tracing' = "stopped"
        /\ summary' = logReport(stepResults)
        /\ \/ /\ rejection' = Err(MsgDisk)
              /\ UNCHANGED report
           \/ /\ report' = [written |-> TRUE, plan |-> gherkinDocument,
                             results |-> stepResults]
              /\ UNCHANGED rejection
  /\ UNCHANGED <<ctxVars, pos, spc, pshVars, returned, details, logVars>>
  /\ UNCHANGED <<call, diagVars, session, confirmations, lastAnswer>>

\* ------------------------------------------ TestOrchestrator.executeStep
\* executeStep asks before the step in interactive mode only.
ConfirmsEachStepInteractiveAuto(m) == StartsWithInteractive(m)
ConfirmsEachStep(m) == m = "interactive"

\* The loop calls executeStep for the next step; executeStep runs up to its
\* first suspension point.
ExecuteStepBegin ==
  /\ rpc = "steps"
  /\ PreviousStepSettled
  /\ pos < Len(AllSteps(gherkinDocument))
  /\ pos' = pos + 1
  /\ spc' = IF ConfirmsEachStep(mode) THEN "confirm" ELSE "process"
  /\ returned' = NoValue
  /\ details' = NoDetails
  /\ navigations' = <<>>
  /\ verifications' = <<>>
  /\ executed' = <<>>
  /\ warned' = FALSE
  /\ UNCHANGED <<ctxVars, rpc, pshVars>>
  /\ UNCHANGED auxVars

\* cli.confirm for the step (interactive mode only).
ConfirmStep ==
  /\ spc = "confirm"
  /\ \E proceed \in BOOLEAN :
       /\ lastAnswer' = [given |-> TRUE, proceed |-> proceed]
       /\ IF proceed
          THEN spc' = "process" /\ UNCHANGED details
          ELSE spc' = "caught" /\ details' = UserCancelMessage
  /\ confirmations' = [confirmations EXCEPT !.step = @ + 1]
  /\ UNCHANGED <<ctxVars, rpc, pos, pshVars, returned, logVars>>
  /\ UNCHANGED <<call, diagVars, session, endVars>>

\* ------------------------------------------------- TestAgent.processStep
\* Keyword given, text with a URL: planGivenStep navigates and checks the
\* location.  goto and waitForLoadState may throw.
UrlAfterNavigation(expectedUrl) ==
  {AboutBlank, expectedUrl, expectedUrl \o <<"/", "x">>, UrlA \o <<"b">>,
   <<"h", "t", "t", "p", ":", "/", "/", "c">>}

GivenNavigate ==
  /\ spc = "process"
  /\ Classify(CurStep.keyword) = "given"
  /\ ExpectedUrl(CurStep.text) # <<>>
  /\ LET expectedUrl == ExpectedUrl(CurStep.text) IN
     \/ /\ navigations' =
             Append(navigations, [url |-> expectedUrl, result |-> Thrown(MsgTimeout)])
        /\ spc' = "caught"
        /\ details' = MsgTimeout
        /\ UNCHANGED returned
     \/ \E currentUrl \in UrlAfterNavigation(expectedUrl) :
          /\ navigations' =
               Append(navigations, [url |-> expectedUrl, result |-> Value(currentUrl)])
          /\ IF UrlVerified(currentUrl, expectedUrl)
             THEN /\ spc' = "returned"
                  /\ returned' = VoidValue
                  /\ UNCHANGED details
             ELSE /\ spc' = "caught"
                  /\ details' = PreconditionFailedMessage(expectedUrl, currentUrl)
                  /\ UNCHANGED returned
  /\ UNCHANGED <<ctxVars, rpc, pos, pshVars, verifications, executed, warned>>
  /\ UNCHANGED auxVars

\* processStep routes the step to planWhenStep: keyword given without a
\* URL, keyword when, or an unknown keyword.  planWithSelfHealing starts.
RoutesToPlanner(step) ==
  \/ Classify(step.keyword) = "given" /\ ExpectedUrl(step.text) = <<>>
  \/ Classify(step.keyword) \in {"when", "unknown"}

PlanStart ==
  /\ spc = "process"
  /\ RoutesToPlanner(CurStep)
  /\ spc' = "plan"
  /\ i' = 0
  /\ lastError' = NoError
  /\ currentText' = CurStep.text
  /\ warned' = (Classify(CurStep.keyword) = "unknown")
  /\ UNCHANGED <<ctxVars, rpc, pos, attempts, heals, returned, details,
                 navigations, verifications, executed>>
  /\ UNCHANGED auxVars

\* ------------------------------------------- TestAgent.planWithSelfHealing
\* Loop condition of the for statement.
LoopContinuesOneMore(k) == k <= 3
LoopContinues(k) == k <= 2

\* Condition of the healing branch in the catch block.
HealsAfterFirstOnly(k) == k < 1
HealsAfter(k) == k < 2

\* Outcomes of generateObject with executorSchema and of page.observe.
ExecutorLlmOutcomes == {Thrown(MsgTimeout)} \cup {Value(p) : p \in ExecutorPlans}
ObserveOutcomes == {Thrown(MsgTimeout)} \cup {Value(o) : o \in ObservedSet}

\* One call of the planner closure of planWhenStep.  failingFill = k > 0:
\* the k-th fill instruction throws; llm and obs are the outcomes of the
\* two collaborator calls that follow.
PlannerOutcome(step, failingFill, llm, obs) ==
  IF failingFill > 0
  THEN [ok |-> FALSE, error |-> Err(MsgTimeout), fills |-> failingFill,
        llmCalled |-> FALSE]
  ELSE LET fills == Len(FillInstructions(step.table)) IN
    IF ~llm.ok THEN [ok |-> FALSE, error |-> llm.error, fills |-> fills,
                     llmCalled |-> TRUE]
    ELSE IF ~obs.ok THEN [ok |-> FALSE, error |-> obs.error, fills |-> fills,
                          llmCalled |-> TRUE]
    ELSE LET sel == SelectCandidate(llm.value, obs.value) IN
      IF sel.ok THEN [ok |-> TRUE, plan |-> sel.plan, fills |-> fills,
                      llmCalled |-> TRUE]
      ELSE [ok |-> FALSE, error |-> sel.error, fills |-> fills,
            llmCalled |-> TRUE]

\* The table the planner closure fills the form from in the call of
\* iteration k: the closure reads step.table in every call.
TableAtAttemptFirstOnly(k, table) == IF k = 0 THEN table ELSE <<>>
TableAtAttempt(k, table) == table

\* One iteration of the loop up to the healing branch: the planner is
\* called with currentText; a plan is returned, or the error is kept and
\* the loop heals, goes on, or ends with the aggregated error.
PlannerAttempt ==
  /\ spc = "plan"
  /\ LoopContinues(i)
  /\ \E failingFill \in 0..Len(FillInstructions(TableAtAttempt(i, CurStep.table))),
        llm \in ExecutorLlmOutcomes, obs \in ObserveOutcomes :
       LET step == [CurStep EXCEPT !.table = TableAtAttempt(i, CurStep.table)]
           out == PlannerOutcome(step, failingFill, llm, obs) IN
       /\ attempts' = Append(attempts, [text |-> currentText, result |-> out])
       /\ IF out.ok
          THEN /\ spc' = "returned"
               /\ returned' = PlanValue(out.plan)
               /\ UNCHANGED <<i, lastError, details>>
          ELSE /\ lastError' = out.error
               /\ UNCHANGED returned
               /\ IF HealsAfter(i) /\ out.error # NoError
                  THEN spc' = "heal" /\ UNCHANGED <<i, details>>
                  ELSE /\ i' = i + 1
                       /\ IF LoopContinues(i + 1)
                          THEN spc' = "plan" /\ UNCHANGED details
                          ELSE /\ spc' = "caught"
                               /\ details' =
                                    PlanningFailedMessage(CurStep.text, out.error)
  /\ UNCHANGED <<ctxVars, rpc, pos, currentText, heals, logVars>>
  /\ UNCHANGED auxVars

\* The accessibility snapshot as text, or the placeholder of a failed one.
TreeJson == <<"{role: WebArea}">>
SnapshotFailedText(msg) == <<"accessibility snapshot failed: ">> \o msg

\* The accessibilityTree local of the healing branch: the snapshot as
\* JSON, or the text the catch block around the snapshot assigns.
AccessibilityTreeTextUnassigned(snapshotOk, msg) ==
  IF snapshotOk THEN TreeJson ELSE <<>>
AccessibilityTreeText(snapshotOk, msg) ==
  IF snapshotOk THEN TreeJson ELSE SnapshotFailedText(msg)

\* buffer.slice(-5)
LastFive(buffer) ==
  IF Len(buffer) <= 5 THEN buffer
  ELSE SubSeq(buffer, Len(buffer) - 4, Len(buffer))

\* The logs text of a healing prompt: the last five lines of each buffer
\* in buffer order; an empty join is replaced by None.
NoneText == <<"None">>
HealingLogs(consoleBuffer, networkBuffer) ==
  [console |-> IF LastFive(consoleBuffer) = <<>> THEN NoneText
               ELSE LastFive(consoleBuffer),
   network |-> IF LastFive(networkBuffer) = <<>> THEN NoneText
               ELSE LastFive(networkBuffer)]

\* getSelfHealingPrompt: the values the template embeds.
getSelfHealingPrompt(failedStep, error, accessibilityTree, logs) ==
  [failedStep |-> failedStep, errorMessage |-> error.message,
   accessibilityTree |-> accessibilityTree, logs |-> logs]

AlternativeInstructions == { <<"t", "a", "p", "2">>, <<"o", "k">> }
HealingPlans ==
  [causeAnalysis : {<<"renamed">>}, alternativeInstruction : AlternativeInstructions]
HealingLlmOutcomes == {Thrown(MsgQuota)} \cup {Value(h) : h \in HealingPlans}

\* The working instruction after a healing plan was obtained.
HealedInstructionKept(text, healingPlan) == text
HealedInstruction(text, healingPlan) == healingPlan.alternativeInstruction

\* The healing branch: snapshot (its failure is caught), then the healing
\* LLM, whose failure leaves the catch block and planWithSelfHealing.
Heal ==
  /\ spc = "heal"
  /\ \E snapshotOk \in BOOLEAN, llm \in HealingLlmOutcomes :
       LET tree == AccessibilityTreeText(snapshotOk, MsgTimeout)
           prompt == getSelfHealingPrompt(CurStep.text, lastError, tree,
                                          HealingLogs(consoleLogs, networkErrors))
       IN /\ heals' = Append(heals, [prompt |-> prompt, result |-> llm])
          /\ IF llm.ok
             THEN /\ currentText' = HealedInstruction(currentText, llm.value)
                  /\ i' = i + 1
                  /\ IF LoopContinues(i + 1)
                     THEN spc' = "plan" /\ UNCHANGED details
                     ELSE /\ spc' = "caught"
                          /\ details' =
                               PlanningFailedMessage(CurStep.text, lastError)
             ELSE /\ spc' = "caught"
                  /\ details' = llm.error.message
                  /\ UNCHANGED <<currentText, i>>
  /\ UNCHANGED <<ctxVars, rpc, pos, lastError, attempts, returned, logVars>>
  /\ UNCHANGED auxVars

\* ------------------------------------------------ verification dispatch
\* Result of the element_state branch for the located candidates and the
\* outcome of the one locator query (thrown: caught, false).
\* The try/catch around the switch: an exception of the locator query is
\* logged and the result is false.
ProbeResultThrowMeansAbsent(assertion, probe) ==
  IF ~probe.ok
  THEN assertion.check \in {"not_exists", "hidden", "disabled", "unchecked"}
  ELSE VerifyState(assertion, probe.value)

ProbeResult(assertion, probe) ==
  IF ~probe.ok THEN FALSE
  ELSE VerifyState(assertion, probe.value)

ElementStateResultAbsentFails(plan, observed, probe) ==
  IF Len(observed) = 0 THEN FALSE
  ELSE IF ~HasSelector(observed[1]) THEN FALSE
  ELSE IF ~probe.ok THEN FALSE
  ELSE VerifyState(plan.assertion, probe.value)

ElementStateResult(plan, observed, probe) ==
  IF Len(observed) = 0 THEN plan.assertion.check = "not_exists"
  ELSE IF ~HasSelector(observed[1]) THEN FALSE
  ELSE ProbeResult(plan.assertion, probe)

ProbeOutcomes(check) ==
  {Thrown(MsgTimeout)} \cup {Value(a) : a \in ProbeAnswers(check)}

\* Outcomes of verifyThenStep for a scalar plan of the verifier LLM.
ScalarOutcomes(plan) ==
  IF plan.assertionType = "element_state"
  THEN {Thrown(MsgTimeout)} \cup
       { Value(ElementStateResult(plan, o, pr)) :
           o \in VerifyObservedSet, pr \in ProbeOutcomes(plan.assertion.check) }
  ELSE {Thrown(MsgTimeout)} \cup
       { Value(VerifyText(plan.assertion, getSafeTextFromResult(r))) :
           r \in ExtractResults }

\* Outcomes of verifyThenStep: a boolean, or an exception of a
\* collaborator (verifier LLM, extract, observe).
VerifyOutcomes(step) ==
  IF Len(step.table) > 0
  THEN {Thrown(MsgTimeout)} \cup
       { Value(VerifyTable(step.table, x)) : x \in ExtractedTables }
  ELSE {Thrown(MsgQuota)} \cup
       UNION { ScalarOutcomes(plan) : plan \in VerifierPlans }

\* processStep, keyword then/and: verifyThenStep is awaited once; false is
\* thrown as the verification error, an exception passes through.
Verify ==
  /\ spc = "process"
  /\ Classify(CurStep.keyword) = "then"
  /\ \E out \in VerifyOutcomes(CurStep) :
       /\ verifications' = Append(verifications, out)
       /\ IF out.ok /\ out.value
          THEN /\ spc' = "returned"
               /\ returned' = BoolValue(TRUE)
               /\ UNCHANGED details
          ELSE /\ spc' = "caught"
               /\ details' = IF out.ok THEN VerificationFailedMessage(CurStep.text)
                                       ELSE out.error.message
               /\ UNCHANGED returned
  /\ UNCHANGED <<ctxVars, rpc, pos, pshVars, navigations, executed, warned>>
  /\ UNCHANGED auxVars

\* ------------------------------- executeStep after processStep returned
StepResult(step, status, dtl, shot) ==
  [step |-> FullStep(step), status |-> status, details |-> dtl,
   screenshotPath |-> shot]

\* The locals of the finished planWithSelfHealing call and the record of
\* its collaborator calls are dropped once executeStep has taken the
\* outcome of processStep.
PshFrameDropped ==
  /\ i' = 0
  /\ lastError' = NoError
  /\ currentText' = <<>>
  /\ attempts' = <<>>
  /\ heals' = <<>>

\* The plan is a candidate with a method: page.act(plan) is awaited.
IsActionPlan(v) == v.kind = "plan" /\ "method" \in DOMAIN v.plan

\* page.act is called in the try block of executeStep, after processStep
\* has returned: its error goes to the catch block of executeStep.
AfterActFailureReplanned == "plan"
AfterActFailure == "caught"

\* try block after processStep: act on the plan, status pass, addResult.
Complete ==
  /\ spc = "returned"
  /\ \E actOk \in BOOLEAN :
       /\ executed' = IF IsActionPlan(returned)
                       THEN Append(executed, returned.plan) ELSE executed
       /\ IF IsActionPlan(returned) /\ ~actOk
          THEN /\ spc' = AfterActFailure
               /\ details' = MsgTimeout
               /\ UNCHANGED stepResults
          ELSE IF returned.kind = "boolean" /\ ~returned.value
          THEN /\ spc' = "caught"
               /\ details' = VerificationFailedMessage(CurStep.text)
               /\ UNCHANGED stepResults
          ELSE /\ spc' = "recorded"
               /\ stepResults' =
                    addResult(stepResults,
                              StepResult(CurStep, "pass", NoDetails, "undefined"))
               /\ UNCHANGED details
  /\ PshFrameDropped
  /\ UNCHANGED <<mode, gherkinDocument, rpc, pos, returned, navigations,
                 verifications, warned>>
  /\ UNCHANGED auxVars

\* The last statement of executeStep: a failed step throws.
ThrowsAfterRecordingNever(status) == FALSE
ThrowsAfterRecording(status) == status = "fail"

\* catch block: status fail, best-effort screenshot, addResult, and the
\* throw that run catches before its finally block.
Caught ==
  /\ spc = "caught"
  /\ \E shot \in {"ok", "mkdir throws", "screenshot throws"} :
       stepResults' =
         addResult(stepResults,
                   StepResult(CurStep, "fail",
                              IF shot = "ok" THEN details
                              ELSE DetailsAfterScreenshotFailure(details,
                                     IF shot = "mkdir throws" THEN MsgDisk
                                     ELSE MsgTimeout),
                              IF shot = "mkdir throws" THEN "undefined"
                              ELSE "failure.png"))
  /\ spc' = "recorded"
  /\ rpc' = IF ThrowsAfterRecording("fail") THEN "finally" ELSE rpc
  /\ PshFrameDropped
  /\ UNCHANGED <<mode, gherkinDocument, pos, returned, details, logVars>>
  /\ UNCHANGED auxVars

\* ---------------------------------------------------------- specification
Next ==
  \/ RunStart
  \/ Normalize
  \/ ConfirmPlan
  \/ ExecuteStepBegin
  \/ ConfirmStep
  \/ GivenNavigate
  \/ PlanStart
  \/ PlannerAttempt
  \/ Heal
  \/ Verify
  \/ Complete
  \/ Caught
  \/ RunLoopEnd
  \/ RunFinally

Spec == Init /\ [][Next]_vars

\* Every collaborator call returns or throws (timeouts are bounded), and
\* run is a single thread of control that is never suspended for ever.
FairSpec == Spec /\ WF_vars(Next)

\* ------------------------------------------------ single calls on their own
\* One call of the planner closure of planWhenStep, for any plan of the
\* executor LLM and any locate result of up to MaxObserved candidates.
PlannerSteps == {s \in StepSet : RoutesToPlanner(s)}
CallExecutorLlmOutcomes ==
  {Thrown(MsgTimeout)} \cup
  {Value(p) : p \in [observeInstruction : {ObsQuery}, intendedAction : AllIntents]}
CallObserveOutcomes ==
  {Thrown(MsgTimeout)} \cup {Value(o) : o \in BoundedSeq(CandidateSet, MaxObserved)}

PlannerCall ==
  /\ call = NoCall
  /\ \E step \in PlannerSteps,
        llm \in CallExecutorLlmOutcomes, obs \in CallObserveOutcomes :
       \E failingFill \in 0..Len(FillInstructions(step.table)) :
         call' = [op |-> "planWhenStep", llm |-> llm, obs |-> obs,
                  result |-> PlannerOutcome(step, failingFill, llm, obs)]
  /\ UNCHANGED <<runVars, diagVars>>

\* The table branch of verifyThenStep for any step table and any extracted
\* items of up to MaxRows rows.
ExpectedTables == BoundedSeq(ExpectedRowSet, MaxRows) \ {<<>>}
ExtractedItems == BoundedSeq(ActualRowSet, MaxRows)

VerifyTableCall ==
  /\ call = NoCall
  /\ \E table \in ExpectedTables, extractedData \in ExtractedItems :
       call' = [op |-> "verifyTable", table |-> table,
                extractedData |-> extractedData,
                result |-> VerifyTable(table, extractedData)]
  /\ UNCHANGED <<runVars, diagVars>>

\* The text branch of verifyThenStep for any text assertion and any
\* extraction result.
VerifyTextCall ==
  /\ call = NoCall
  /\ \E assertion \in TextAssertions, result \in TextExtractResults :
       call' = [op |-> "verifyText", assertion |-> assertion,
                extracted |-> result,
                actual |-> getSafeTextFromResult(result),
                result |-> VerifyText(assertion, getSafeTextFromResult(result))]
  /\ UNCHANGED <<runVars, diagVars>>

\* The element_state branch of verifyThenStep for any check, any locate
\* result and any answer of the locator; probe is the locator query made,
\* if one is made.
VerifyStateCall ==
  /\ call = NoCall
  /\ \E plan \in {v \in VerifierPlans : v.assertionType = "element_state"},
        observed \in VerifyObservedSet :
       \E probe \in ProbeOutcomes(plan.assertion.check) :
         call' = [op |-> "verifyState", plan |-> plan, observed |-> observed,
                  probe |-> IF ProbesLocator(observed)
                            THEN [made |-> TRUE, outcome |-> probe]
                            ELSE [made |-> FALSE],
                  result |-> ElementStateResult(plan, observed, probe)]
  /\ UNCHANGED <<runVars, diagVars>>

\* fillFormFromTable for any table of up to MaxRows rows: the act
\* instructions issued in order; act may throw at any of them, which ends
\* the call.
RowEmptyName == << <<ColName, <<>> >>, <<ColValue, <<"7">> >> >>
RowEmptyValue == << <<ColName, <<"i", "d">> >>, <<ColValue, <<>> >> >>
RowThreeColumns ==
  << <<ColName, <<"q">> >>, <<ColValue, <<"9">> >>, <<<<"w">>, <<"z">> >> >>
FillRowSet ==
  {RowFull, RowOneColumn, RowEmptyName, RowEmptyValue, RowThreeColumns}

FillCall ==
  /\ call = NoCall
  /\ \E table \in BoundedSeq(FillRowSet, MaxRows) :
       \E failing \in 0..Len(FillInstructions(table)) :
         call' = [op |-> "fillFormFromTable", table |-> table,
                  issued |-> IF failing = 0 THEN FillInstructions(table)
                             ELSE SubSeq(FillInstructions(table), 1, failing),
                  result |-> IF failing = 0 THEN Value("void")
                             ELSE Thrown(MsgTimeout)]
  /\ UNCHANGED <<runVars, diagVars>>

\* An ExecutionContext as an object: its four fields.
ScenarioTexts == { <<"log in">>, <<"buy a bag">> }
ResultLists ==
  { <<>>,
    << StepResult([keyword |-> KwWhen, text |-> TxtTap], "pass", NoDetails, "undefined") >>,
    << StepResult([keyword |-> KwWhen, text |-> TxtTap], "pass", NoDetails, "undefined"),
       StepResult([keyword |-> KwThen, text |-> TxtSee], "fail",
                  VerificationFailedMessage(TxtSee), "failure.png") >> }
ContextSet ==
  [mode : ExecutionMode,
   originalScenario : ScenarioTexts,
   gherkinDocument :
     {NoDocument} \cup
     {d \in DocumentSet : d.background = <<>> /\ d.steps # <<>>
                            /\ d.steps[1].keyword \in {KwWhen, KwThen}},
   stepResults : ResultLists]

\* ExecutionContext.resetForNewScenario
resetForNewScenarioKeepingResults(context, newScenario) ==
  [context EXCEPT !.originalScenario = newScenario,
                  !.gherkinDocument = NoDocument]

resetForNewScenario(context, newScenario) ==
  [context EXCEPT !.originalScenario = newScenario,
                  !.gherkinDocument = NoDocument,
                  !.stepResults = <<>>]

\* resetForNewScenario applied to a context in any state, once, and once
\* more with the same text.
ResetCall ==
  /\ call = NoCall
  /\ \E context \in ContextSet, newScenario \in ScenarioTexts :
       call' = [op |-> "resetForNewScenario", context |-> context,
                newScenario |-> newScenario,
                once |-> resetForNewScenario(context, newScenario),
                twice |-> resetForNewScenario(
                            resetForNewScenario(context, newScenario),
                            newScenario)]
  /\ UNCHANGED <<runVars, diagVars>>

\* ------------------------------------------ generateReport: redaction
\* Character classes of the two patterns of normalizeKey and of the word
\* boundary of SENSITIVE_KEY_PATTERN.
UpperLetters == {"A", "B", "C", "D", "E", "F", "G", "H", "I", "J", "K", "L", "M", "N", "O", "P", "Q", "R", "S", "T", "U", "V", "W", "X", "Y", "Z"}
LowerLettersAndDigits ==
  {"a", "b", "c", "d", "e", "f", "g", "h", "i", "j", "k", "l", "m",
   "n", "o", "p", "q", "r", "s", "t", "u", "v", "w", "x", "y", "z",
   "0", "1", "2", "3", "4", "5", "6", "7", "8", "9"}
IsWordChar(c) == c \in UpperLetters \cup LowerLettersAndDigits \cup {"_"}

\* key.replace(/([a-z0-9])([A-Z])/g, "$1_$2")
RECURSIVE SplitCamelCase(_)
SplitCamelCase(key) ==
  IF Len(key) < 2 THEN key
  ELSE IF key[1] \in LowerLettersAndDigits /\ key[2] \in UpperLetters
       THEN <<key[1], "_">> \o SplitCamelCase(Tail(key))
       ELSE <<key[1]>> \o SplitCamelCase(Tail(key))

\* .replace(/[\s-]+/g, "_"): every run of white space and hyphens becomes
\* one underscore.
RECURSIVE JoinSeparators(_)
JoinSeparators(key) ==
  IF key = <<>> THEN <<>>
  ELSE IF key[1] \in {" ", "-"}
       THEN IF Len(key) >= 2 /\ key[2] \in {" ", "-"}
            THEN JoinSeparators(Tail(key))
            ELSE <<"_">> \o JoinSeparators(Tail(key))
       ELSE <<key[1]>> \o JoinSeparators(Tail(key))

normalizeKey(key) == ToLowerCase(JoinSeparators(SplitCamelCase(key)))

\* The alternatives of SENSITIVE_KEY_PATTERN, optional groups expanded.
SensitiveNames ==
  { <<"p", "a", "s", "s">>,
    <<"p", "a", "s", "s", "w", "o", "r", "d">>,
    <<"s", "e", "c", "r", "e", "t">>,
    <<"t", "o", "k", "e", "n">>,
    <<"a", "p", "i", "_", "k", "e", "y">>,
    <<"a", "u", "t", "h", "o", "r", "i", "z", "a", "t", "i", "o", "n">>,
    <<"a", "u", "t", "h">>,
    <<"a", "u", "t", "h", "e", "n", "t", "i", "c", "a", "t", "i", "o", "n">>,
    <<"c", "r", "e", "d", "e", "n", "t", "i", "a", "l">>,
    <<"c", "r", "e", "d", "e", "n", "t", "i", "a", "l", "s">>,
    <<"c", "o", "o", "k", "i", "e">>,
    <<"s", "e", "t", "_", "c", "o", "o", "k", "i", "e">>,
    <<"s", "e", "s", "s", "i", "o", "n">>,
    <<"c", "s", "r", "f">>,
    <<"c", "l", "i", "e", "n", "t", "_", "s", "e", "c", "r", "e", "t">>,
    <<"a", "c", "c", "e", "s", "s", "_", "t", "o", "k", "e", "n">>,
    <<"i", "d", "_", "t", "o", "k", "e", "n">>,
    <<"r", "e", "f", "r", "e", "s", "h", "_", "t", "o", "k", "e", "n">> }

\* SENSITIVE_KEY_PATTERN.test(s): a name stands in s between two word
\* boundaries.
SensitiveKeyPatternTest(s) ==
  \E k \in 1..Len(s), name \in SensitiveNames :
    /\ HasAt(s, k, name)
    /\ (k = 1 \/ ~IsWordChar(s[k - 1]))
    /\ (k + Len(name) > Len(s) \/ ~IsWordChar(s[k + Len(name)]))

shouldRedactKey(key) == SensitiveKeyPatternTest(normalizeKey(key))

\* Values of a command record: strings, null, arrays and objects (an
\* object is the sequence of its entries).
JsonString(v) == [t |-> "string", v |-> v]
JsonNull == [t |-> "null"]
JsonArray(items) == [t |-> "array", items |-> items]
JsonObject(entries) == [t |-> "object", entries |-> entries]
Redacted == JsonString("[REDACTED]")

\* redact: primitives as they are, arrays element-wise, objects entry by
\* entry with the value of a sensitive key replaced.
RECURSIVE redact(_)
redact(v) ==
  IF v.t = "array"
  THEN JsonArray([k \in 1..Len(v.items) |-> redact(v.items[k])])
  ELSE IF v.t = "object"
  THEN JsonObject([k \in 1..Len(v.entries) |->
         [key |-> v.entries[k].key,
          value |-> IF shouldRedactKey(v.entries[k].key) THEN Redacted
                    ELSE redact(v.entries[k].value)]])
  ELSE v

\* Keys and values of recorded commands, nested up to MaxDepth levels.
CommandKeys ==
  { <<"p", "a", "s", "s", "w", "o", "r", "d">>,
    <<"P", "A", "S", "S", "W", "O", "R", "D">>,
    <<"p", "a", "s", "s", "W", "o", "r", "d">>,
    <<"a", "p", "i", "K", "e", "y">>,
    <<"S", "e", "t", "-", "C", "o", "o", "k", "i", "e">>,
    <<"c", "s", "r", "f", ".", "v", "a", "l", "u", "e">>,
    <<"u", "r", "l">>,
    <<"u", "s", "e", "r", "T", "o", "k", "e", "n">> }
JsonLeaves == {JsonString("s3cr3t"), JsonNull}

RECURSIVE JsonValues(_)
JsonValues(depth) ==
  IF depth = 0 THEN JsonLeaves
  ELSE LET sub == JsonValues(depth - 1) IN
       JsonLeaves
         \cup {JsonArray(<<JsonString("s3cr3t"), x>>) : x \in sub}
         \cup {JsonObject(<<[key |-> k, value |-> x]>>) :
                 k \in CommandKeys, x \in sub}

\* result.commands.map((cmd) => redact(cmd)) for one command; stored is
\* the command held in the StepResult, after the call.
RedactCall ==
  /\ call = NoCall
  /\ \E cmd \in JsonValues(MaxDepth) :
       call' = [op |-> "redact", command |-> cmd, stored |-> cmd,
                result |-> redact(cmd)]
  /\ UNCHANGED <<runVars, diagVars>>

CallNext ==
  \/ PlannerCall
  \/ FillCall
  \/ ResetCall
  \/ RedactCall
  \/ VerifyTableCall
  \/ VerifyTextCall
  \/ VerifyStateCall

CallSpec == Init /\ [][CallNext]_vars

\* ------------------------------------------------- diagnostic buffers
\* The buffers keep the most recent lines up to a fixed count; the oldest
\* line is dropped when a line is added to a full buffer.
BufferCap == 5
addConsoleLog(buffer, line) ==
  IF Len(buffer) >= BufferCap THEN Tail(buffer) \o <<line>>
  ELSE Append(buffer, line)
addNetworkError(buffer, line) ==
  IF Len(buffer) >= BufferCap THEN Tail(buffer) \o <<line>>
  ELSE Append(buffer, line)

\* consoleHandler: only messages of type error or warning are kept.
ConsoleTypes == {"error", "warning", "log"}
ConsoleTypeKeptAny(type) == TRUE
ConsoleTypeKept(type) == type \in {"error", "warning"}

ConsoleEvent ==
  /\ call = NoCall
  /\ eventCount < MaxEvents
  /\ eventCount' = eventCount + 1
  /\ \E type \in ConsoleTypes :
       consoleLogs' =
         IF ConsoleTypeKept(type)
         THEN addConsoleLog(consoleLogs, [type |-> type, text |-> eventCount + 1])
         ELSE consoleLogs
  /\ UNCHANGED <<runVars, call, networkErrors>>

\* requestFailedHandler: a request with a failure is kept with status 0.
RequestFailedEvent ==
  /\ call = NoCall
  /\ eventCount < MaxEvents
  /\ eventCount' = eventCount + 1
  /\ \E failure \in {"none", "net::ERR_FAILED"} :
       networkErrors' =
         IF failure # "none"
         THEN addNetworkError(networkErrors,
                [url |-> eventCount + 1, status |-> 0, text |-> failure])
         ELSE networkErrors
  /\ UNCHANGED <<runVars, call, consoleLogs>>

\* responseHandler: a response with status >= 400 is kept.
ResponseStatuses == {200, 399, 400, 503}
ResponseEvent ==
  /\ call = NoCall
  /\ eventCount < MaxEvents
  /\ eventCount' = eventCount + 1
  /\ \E status \in ResponseStatuses :
       networkErrors' =
         IF status >= 400
         THEN addNetworkError(networkErrors,
                [url |-> eventCount + 1, status |-> status, text |-> "status text"])
         ELSE networkErrors
  /\ UNCHANGED <<runVars, call, consoleLogs>>

\* The healing branch of planWithSelfHealing assembles its prompt from the
\* buffers as they are.
HealingPromptCall ==
  /\ call = NoCall
  /\ call' = [op |-> "healingPrompt",
              prompt |-> getSelfHealingPrompt(TxtTap, Err(MsgTimeout), TreeJson,
                           HealingLogs(consoleLogs, networkErrors))]
  /\ UNCHANGED <<runVars, diagVars>>

DiagNext ==
  \/ ConsoleEvent
  \/ RequestFailedEvent
  \/ ResponseEvent
  \/ HealingPromptCall

DiagSpec == Init /\ [][DiagNext]_vars

\* ------------------------------------------------------ main: a session
\* String.prototype.trim over blanks.
RECURSIVE TrimStart(_)
TrimStart(str) ==
  IF str # <<>> /\ Head(str) = " " THEN TrimStart(Tail(str)) ELSE str
RECURSIVE TrimEnd(_)
TrimEnd(str) ==
  IF str # <<>> /\ str[Len(str)] = " "
  THEN TrimEnd(SubSeq(str, 1, Len(str) - 1)) ELSE str
Trim(str) == TrimEnd(TrimStart(str))

TxtExit == <<"e", "x", "i", "t">>
TxtInspector == <<"i", "n", "s", "p", "e", "c", "t", "o", "r">>
UserInputs ==
  ScenarioTexts \cup
  {TxtExit, <<"E", "x", "i", "t">>, <<" ", "e", "x", "i", "t", " ">>,
   <<>>, <<" ">>, TxtInspector}

\* The two versions of main.
MainVersions == {"index.ts", "cli.ts"}

NoContext == [null |-> TRUE]
NoInput == [null |-> TRUE]

\* What the prompt of the loop does with the answer: end the loop, ask
\* again, or take the answer as the scenario text.
ReadInput(version, headless, userInput) ==
  IF version = "index.ts"
  THEN IF ToLowerCase(userInput) = TxtExit THEN "break" ELSE "scenario"
  ELSE IF Trim(userInput) = <<>> THEN "continue"
  ELSE IF ToLowerCase(Trim(userInput)) = TxtExit THEN "break"
  ELSE IF ~headless /\ ToLowerCase(Trim(userInput)) = TxtInspector
  THEN "continue"
  ELSE "scenario"

\* The context of the next run: reset when there is one, created otherwise.
ContextForScenario(executionContext, m, scenarioText) ==
  IF executionContext # NoContext
  THEN resetForNewScenario(executionContext, scenarioText)
  ELSE [mode |-> m, originalScenario |-> scenarioText,
        gherkinDocument |-> NoDocument, stepResults |-> <<>>]

\* After run has resolved: autonomous mode leaves the loop.
AfterRun(m) == IF m = "autonomous" THEN "finally" ELSE "loop"

\* The value after --mode= on the command line, NoModeArg without one.
NoModeArg == "(none)"
ModeArgs ==
  {NoModeArg, "interactive", "confirm", "interactive:auto", "autonomous",
   "fast"}

\* The mode main takes from the command line: the value of --mode= when
\* it is one of three accepted values, then --interactive.
ParseMode(modeArg, interactiveFlag) ==
  IF interactiveFlag THEN "interactive"
  ELSE IF modeArg \in {"interactive", "confirm", "interactive:auto"}
  THEN modeArg
  ELSE "autonomous"

\* Autonomous mode needs the path of a scenario file.
FileRequired(m) == m = "autonomous"

\* main from its first statement to the loop: the arguments, the check of
\* the file path in autonomous mode, the browser.
MainStart ==
  /\ session = NoSession
  /\ \E version \in MainVersions, modeArg \in ModeArgs,
        interactiveFlag \in BOOLEAN,
        testFilePath \in BOOLEAN, headless \in BOOLEAN,
        initOk \in BOOLEAN :
       LET m == ParseMode(modeArg, interactiveFlag)
           started ==
             [pc |-> "loop", version |-> version, mode |-> m,
              testFilePath |-> testFilePath, headless |-> headless,
              executionContext |-> NoContext, contexts |-> 0,
              inits |-> 0, browserCloses |-> 0, cliCloses |-> 0,
              runs |-> 0, reports |-> <<>>, lastInput |-> NoInput,
              handlers |-> {}, handlersInRun |-> {},
              rejected |-> FALSE]
       IN  session' =
             IF FileRequired(m) /\ ~testFilePath
             THEN [started EXCEPT !.pc = "exited", !.cliCloses = 1]
             ELSE IF initOk
             THEN [started EXCEPT !.inits = 1]
             ELSE [started EXCEPT !.pc = "exited", !.rejected = TRUE]
  /\ UNCHANGED <<ctxVars, rpc, pos, spc, pshVars, returned, details, logVars>>
  /\ UNCHANGED <<call, diagVars, confirmations, lastAnswer, endVars>>

\* One pass of the loop up to the run: the scenario text from the file or
\* from the prompt, then the context.
NextScenario ==
  /\ session.pc = "loop"
  /\ IF session.testFilePath /\ session.executionContext = NoContext
     THEN \/ session' = [session EXCEPT !.pc = "finally"]
          \/ /\ session.runs < MaxScenarios
             /\ \E scenarioText \in ScenarioTexts :
                  session' =
                    [session EXCEPT
                       !.pc = "run",
                       !.contexts = @ + 1,
                       !.executionContext =
                          ContextForScenario(session.executionContext,
                                             session.mode, scenarioText)]
     ELSE \E userInput \in UserInputs :
            LET todo == ReadInput(session.version, session.headless, userInput)
            IN  /\ todo = "scenario" => session.runs < MaxScenarios
                /\ session' =
                     IF todo = "break"
                     THEN [session EXCEPT !.pc = "finally",
                                          !.lastInput = userInput]
                     ELSE IF todo = "continue"
                     THEN [session EXCEPT !.lastInput = userInput]
                     ELSE [session EXCEPT
                             !.pc = "run",
                             !.lastInput = userInput,
                             !.contexts =
                                IF session.executionContext = NoContext
                                THEN @ + 1 ELSE @,
                             !.executionContext =
                                ContextForScenario(session.executionContext,
                                                   session.mode, userInput)]
  /\ UNCHANGED <<ctxVars, rpc, pos, spc, pshVars, returned, details, logVars>>
  /\ UNCHANGED <<call, diagVars, confirmations, lastAnswer, endVars>>

\* The results a run adds to the context it was given, one addResult call
\* for each.
RECURSIVE AddResults(_, _)
AddResults(results, produced) ==
  IF produced = <<>> THEN results
  ELSE AddResults(addResult(results, Head(produced)), Tail(produced))

\* page.on and page.off of run with the three handler functions of that
\* run; the page keeps the handlers of each run that are registered.
PageOn(handlers, run) == handlers \cup {run}
PageOffOtherFunctions(handlers, run) == handlers
PageOff(handlers, run) == handlers \ {run}

\* How far a run gets: fs.mkdir ahead of the try block throws, or
\* tracing.start throws before the handlers are registered, or the
\* handlers are registered and the scenario is worked on.
RunPaths == {"mkdir throws", "tracing.start throws", "registered"}

\* orchestrator.run() on the context of the session: it adds its results,
\* writes the report of the context's results and resolves, or rejects.
RunScenario ==
  /\ session.pc = "run"
  /\ \E produced \in ResultLists, resolved \in BOOLEAN, path \in RunPaths :
       LET results == AddResults(session.executionContext.stepResults, produced)
           inRun == IF path = "registered"
                    THEN PageOn(session.handlers, session.runs + 1)
                    ELSE session.handlers
       IN  /\ path = "mkdir throws" => ~resolved
           /\ path # "registered" => produced = <<>>
           /\ session' =
             [session EXCEPT
                !.runs = @ + 1,
                !.handlersInRun = inRun,
                !.handlers = IF path = "mkdir throws" THEN inRun
                             ELSE PageOff(inRun, session.runs + 1),
                !.executionContext.stepResults = results,
                !.reports =
                   IF resolved
                   THEN Append(@, [results |-> results, produced |-> produced])
                   ELSE @,
                !.pc = IF resolved THEN AfterRun(session.mode) ELSE "finally"]
  /\ UNCHANGED <<ctxVars, rpc, pos, spc, pshVars, returned, details, logVars>>
  /\ UNCHANGED <<call, diagVars, confirmations, lastAnswer, endVars>>

\* The finally block of main: stagehand.close(), then cli.close().
MainFinally ==
  /\ session.pc = "finally"
  /\ \/ session' = [session EXCEPT !.pc = "exited",
                                   !.browserCloses = @ + 1,
                                   !.cliCloses = @ + 1]
     \/ session' = [session EXCEPT !.pc = "exited", !.rejected = TRUE]
  /\ UNCHANGED <<ctxVars, rpc, pos, spc, pshVars, returned, details, logVars>>
  /\ UNCHANGED <<call, diagVars, confirmations, lastAnswer, endVars>>

SessionNext ==
  \/ MainStart
  \/ NextScenario
  \/ RunScenario
  \/ MainFinally

SessionSpec == Init /\ [][SessionNext]_vars

\* ------------------------------------------ ScenarioRecorder.recordStep
\* Number(text) for the texts of an environment variable: the empty text
\* is 0, a decimal numeral with an optional minus sign is its value, any
\* other text is NaN.
Digits == {"0", "1", "2", "3", "4", "5", "6", "7", "8", "9"}
DigitValue(c) ==
  CASE c = "0" -> 0 [] c = "1" -> 1 [] c = "2" -> 2 [] c = "3" -> 3
    [] c = "4" -> 4 [] c = "5" -> 5 [] c = "6" -> 6 [] c = "7" -> 7
    [] c = "8" -> 8 [] c = "9" -> 9
RECURSIVE NumeralValue(_)
NumeralValue(str) ==
  IF str = <<>> THEN 0
  ELSE 10 * NumeralValue(SubSeq(str, 1, Len(str) - 1)) + DigitValue(str[Len(str)])
NaN == [nan |-> TRUE]
Num(n) == [nan |-> FALSE, value |-> n]
ToNumber(str) ==
  IF str = <<>> THEN Num(0)
  ELSE IF \A k \in 1..Len(str) : str[k] \in Digits THEN Num(NumeralValue(str))
  ELSE IF /\ Len(str) > 1
          /\ str[1] = "-"
          /\ \A k \in 2..Len(str) : str[k] \in Digits
  THEN Num(0 - NumeralValue(Tail(str)))
  ELSE NaN

\* process.env.RECORDER_MAX_RETRIES: not set, or a text.
EnvUndefined == [defined |-> FALSE]
EnvText(str) == [defined |-> TRUE, text |-> str]
RetriesEnv ==
  {EnvUndefined, EnvText(<<"0">>), EnvText(<<"1">>), EnvText(<<"2">>),
   EnvText(<<"-", "1">>), EnvText(<<"a", "b", "c">>), EnvText(<<>>)}

\* maxRetries of recordStep.
MaxRetriesOf(rawRetries) ==
  LET parsedRetries ==
        IF rawRetries.defined THEN ToNumber(rawRetries.text) ELSE Num(1)
  IN  IF ~parsedRetries.nan /\ parsedRetries.value >= 0
      THEN parsedRetries.value ELSE 1

\* The entry pushed after a successful attempt.
RecordedEntryOriginalText(intent, userInstruction, currentInstruction) ==
  [type |-> intent, userInstruction |-> userInstruction]
RecordedEntry(intent, userInstruction, currentInstruction) ==
  [type |-> intent, userInstruction |-> currentInstruction]

\* Condition of the while loop and condition of the retry question.
LoopGoesOn(success, retryCount, maxRetries) ==
  ~success /\ retryCount <= maxRetries
MayRetry(retryCount, maxRetries) == retryCount < maxRetries

StepIntents == {"action", "assertion"}
Instructions == { <<"open the cart">>, <<"the cart shows 1">>, <<"tap pay">> }
RecordedBefore ==
  { <<>>, << [type |-> "action", userInstruction |-> <<"open the cart">>] >> }

\* recordStep up to its loop.
RecordStepBegin ==
  /\ call = NoCall
  /\ \E rawRetries \in RetriesEnv, userInstruction \in Instructions,
        before \in RecordedBefore :
       call' = [op |-> "recordStep", pc |-> "loop",
                rawRetries |-> rawRetries,
                maxRetries |-> MaxRetriesOf(rawRetries),
                userInstruction |-> userInstruction,
                currentInstruction |-> userInstruction,
                retryCount |-> 0, success |-> FALSE,
                before |-> before, recordedSteps |-> before,
                attempts |-> <<>>, corrections |-> <<>>,
                questions |-> 0, threw |-> FALSE]
  /\ UNCHANGED <<runVars, diagVars>>

\* One pass of the try block: classify, then the action or the
\* verification, which succeeds (the entry is pushed) or throws.
RecordAttempt ==
  /\ call.op = "recordStep"
  /\ call.pc = "loop"
  /\ IF LoopGoesOn(call.success, call.retryCount, call.maxRetries)
     THEN \E intent \in StepIntents, ok \in BOOLEAN :
            call' =
              [call EXCEPT
                 !.attempts = Append(@, [instruction |-> call.currentInstruction,
                                         intent |-> intent, ok |-> ok]),
                 !.recordedSteps =
                    IF ok
                    THEN Append(@, RecordedEntry(intent, call.userInstruction,
                                                 call.currentInstruction))
                    ELSE @,
                 !.success = ok,
                 !.pc = IF ok THEN "loop"
                        ELSE IF MayRetry(call.retryCount, call.maxRetries)
                        THEN "confirm" ELSE "done"]
     ELSE call' = [call EXCEPT !.pc = "done"]
  /\ UNCHANGED <<runVars, diagVars>>

\* The catch block with a retry left: the question, and after yes the
\* corrected instruction.
RecordRetryQuestion ==
  /\ call.op = "recordStep"
  /\ call.pc = "confirm"
  /\ \E shouldRetry \in BOOLEAN, corrected \in Instructions :
       call' =
         IF shouldRetry
         THEN [call EXCEPT !.questions = @ + 1,
                           !.corrections = Append(@, corrected),
                           !.currentInstruction = corrected,
                           !.retryCount = @ + 1,
                           !.pc = "loop"]
         ELSE [call EXCEPT !.questions = @ + 1, !.pc = "done"]
  /\ UNCHANGED <<runVars, diagVars>>

\* ------------------------------------- InstructionClassifierAgent.classify
\* A character outside ASCII is written as one element naming its code
\* point ("U+78BA"); toLowerCase leaves these characters as they are.
\* The alternatives of the fallback pattern: a stem and an optional ending
\* (contains?, equals?, exact(?:ly)?, match(?:es)?).
FallbackAlternatives ==
  {[stem |-> <<"U+78BA", "U+8A8D">>, opt |-> <<>>],
   [stem |-> <<"U+691C", "U+8A3C">>, opt |-> <<>>],
   [stem |-> <<"U+8868", "U+793A", "U+3055", "U+308C", "U+3066", "U+3044", "U+308B">>, opt |-> <<>>],
   [stem |-> <<"U+542B", "U+307E", "U+308C", "U+3066", "U+3044", "U+308B">>, opt |-> <<>>],
   [stem |-> <<"U+7B49", "U+3057", "U+3044">>, opt |-> <<>>],
   [stem |-> <<"U+4E00", "U+81F4">>, opt |-> <<>>],
   [stem |-> <<"U+542B", "U+3080">>, opt |-> <<>>],
   [stem |-> <<"v", "e", "r", "i", "f", "y">>, opt |-> <<>>],
   [stem |-> <<"a", "s", "s", "e", "r", "t">>, opt |-> <<>>],
   [stem |-> <<"s", "h", "o", "u", "l", "d">>, opt |-> <<>>],
   [stem |-> <<"c", "o", "n", "t", "a", "i", "n">>, opt |-> <<"s">>],
   [stem |-> <<"e", "q", "u", "a", "l">>, opt |-> <<"s">>],
   [stem |-> <<"e", "x", "a", "c", "t">>, opt |-> <<"l", "y">>],
   [stem |-> <<"m", "a", "t", "c", "h">>, opt |-> <<"e", "s">>]}

\* RegExp.prototype.test for an alternation of literal texts with optional
\* endings: some alternative occurs somewhere in the text.
TestAlternatives(alternatives, str) ==
  \E alt \in alternatives :
    \E txt \in {alt.stem, alt.stem \o alt.opt} : Includes(str, txt)

\* The text the fallback pattern is tested on.
FallbackSubjectAsTyped(instruction) == instruction
FallbackSubject(instruction) == ToLowerCase(instruction)

\* The catch block of classify.
FallbackIntent(instruction) ==
  LET lowerInstruction == FallbackSubject(instruction)
      isAssertion == TestAlternatives(FallbackAlternatives, lowerInstruction)
  IN  IF isAssertion THEN "assertion" ELSE "action"

\* generateObject with instructionClassificationSchema: an object with
\* intent action or assertion, or an exception (a failed request, or an
\* answer that does not satisfy the schema).
ClassifierLLM ==
  {[kind |-> "object", intent |-> intent] : intent \in StepIntents}
    \cup {[kind |-> "error"], [kind |-> "invalid"]}

ClassifyInstructions ==
  {<<"V", "E", "R", "I", "F", "Y", " ", "i", "t">>,
   <<"c", "l", "i", "c", "k", " ", "o", "k">>,
   <<"T", "i", "t", "l", "e", " ", "M", "a", "t", "c", "h", "e", "s">>,
   <<"s", "h", "o", "u", "l", "d", "e", "r", " ", "t", "a", "p">>,
   <<"U+30DC", "U+30BF", "U+30F3", "U+3092", "U+62BC", "U+3059">>,
   <<"U+8868", "U+793A", "U+3092", "U+78BA", "U+8A8D">>,
   <<"g", "o", " ", "t", "o", " ", "c", "a", "r", "t">>,
   <<"I", "t", " ", "E", "q", "u", "a", "l", "s", " ", "5">>}

\* classify for any instruction and any outcome of the LLM call.
ClassifyCall ==
  /\ call = NoCall
  /\ \E instruction \in ClassifyInstructions, llm \in ClassifierLLM :
       call' = [op |-> "classify", instruction |-> instruction, llm |-> llm,
                threw |-> FALSE,
                result |-> IF llm.kind = "object"
                           THEN [intent |-> llm.intent]
                           ELSE [intent |-> FallbackIntent(instruction)]]
  /\ UNCHANGED <<runVars, diagVars>>

RecorderNext ==
  \/ ClassifyCall
  \/ RecordStepBegin
  \/ RecordAttempt
  \/ RecordRetryQuestion

RecorderSpec == Init /\ [][RecorderNext]_vars

\* ------------------------------------------------------------- properties
\* planWithSelfHealing is running / has handed its outcome to executeStep.
InSelfHealing == spc \in {"plan", "heal"}
SelfHealingEnded == spc \in {"returned", "caught", "recorded"}

AllAttemptsFailed == \A k \in 1..Len(attempts) : ~attempts[k].result.ok
AllHealsSucceeded == \A k \in 1..Len(heals) : heals[k].result.ok

\* C1: for every behaviour of the planner, one planWithSelfHealing call
\* makes at most 3 planner calls and at most 2 healing LLM calls, and the
\* loop always ends: a plan is returned or an error is raised.
C1_BoundedRetries ==
  /\ [](Len(attempts) <= 3 /\ Len(heals) <= 2)
  /\ [](InSelfHealing => <>SelfHealingEnded)

C1_Witness ==
  /\ spc = "caught"
  /\ Len(attempts) = 3
  /\ Len(heals) = 2

\* C2: the returned plan is the plan of the first successful attempt, which
\* is the last planner call; k failures before it were followed by exactly
\* k successful healing calls (2 when the third attempt succeeds), and no
\* planner or healing call is made after the success: a successful attempt
\* is the last entry of the call record and no healing call follows it.
C2_ReturnsFirstSuccess ==
  /\ \A k \in 1..(Len(attempts) - 1) : ~attempts[k].result.ok
  /\ Len(heals) <= Len(attempts)
  /\ (attempts # <<>> /\ attempts[Len(attempts)].result.ok) =>
       /\ spc = "returned"
       /\ returned = PlanValue(attempts[Len(attempts)].result.plan)
       /\ Len(heals) = Len(attempts) - 1
       /\ AllHealsSucceeded
  /\ (spc = "returned" /\ returned.kind = "plan") =>
       (attempts # <<>> /\ attempts[Len(attempts)].result.ok)

C2_Witness ==
  /\ spc = "returned"
  /\ Len(attempts) = 3
  /\ ~attempts[1].result.ok
  /\ ~attempts[2].result.ok
  /\ returned = PlanValue(attempts[3].result.plan)
  /\ Len(heals) = 2

C4_OnlyAggregatedErrorLeaves ==
  (spc = "caught" /\ attempts # <<>>) =>
    /\ Len(attempts) = 3
    /\ details = PlanningFailedMessage(CurStep.text, lastError)

\* C5: the first planner call receives the original step text; call k+1
\* receives the alternativeInstruction of the k-th healing plan, which is
\* the working instruction from then on; every healing prompt embeds the
\* original step text and the error of the attempt that just failed.
C5_InstructionReplacement ==
  /\ attempts # <<>> => attempts[1].text = CurStep.text
  /\ \A k \in 2..Len(attempts) :
       /\ k - 1 <= Len(heals)
       /\ heals[k - 1].result.ok
       /\ attempts[k].text = heals[k - 1].result.value.alternativeInstruction
  /\ \A k \in 1..Len(heals) :
       /\ k <= Len(attempts)
       /\ heals[k].prompt.failedStep = CurStep.text
       /\ heals[k].prompt.errorMessage = attempts[k].result.error.message
  /\ (spc = "plan" /\ heals # <<>>) =>
       currentText = heals[Len(heals)].result.value.alternativeInstruction

C5_Witness ==
  /\ Len(attempts) = 3
  /\ attempts[2].text # CurStep.text
  /\ attempts[3].text # attempts[2].text
  /\ heals[2].prompt.errorMessage # heals[1].prompt.errorMessage

\* C6: once a step is recorded with status fail the run terminates: the
\* failed result stays the last one, no step is in flight or dispatched any
\* more, and run is in (or past) its finally block.  A verification step
\* whose check returned false is such a step.
HasFailed == \E k \in 1..Len(stepResults) : stepResults[k].status = "fail"

C6_FailureTerminatesRun ==
  HasFailed =>
    /\ stepResults[Len(stepResults)].status = "fail"
    /\ \A k \in 1..(Len(stepResults) - 1) : stepResults[k].status = "pass"
    /\ spc = "recorded"
    /\ rpc \in {"finally", "done"}
    /\ Len(stepResults) = pos

C6_Witness ==
  /\ rpc = "done"
  /\ HasFailed
  /\ pos < Len(AllSteps(gherkinDocument))
  /\ verifications = <<Value(FALSE)>>
  /\ stepResults[pos].details = VerificationFailedMessage(CurStep.text)

\* C7: a verification step is evaluated by verifyThenStep exactly once and
\* never enters the self-healing loop, whatever the outcome (true, false,
\* exception); a false result is the failure of the step, and the detail
\* text names the step.
C7_VerificationNeverRetried ==
  /\ Len(verifications) <= 1
  /\ verifications # <<>> =>
       /\ attempts = <<>>
       /\ heals = <<>>
       /\ spc \in {"returned", "caught", "recorded"}
       /\ spc = "returned" => (verifications[1].ok /\ verifications[1].value)
       /\ spc = "caught" => ~(verifications[1].ok /\ verifications[1].value)
  /\ (verifications # <<>> /\ spc = "recorded") =>
       LET last == stepResults[Len(stepResults)] IN
       /\ last.status = "pass" <=> (verifications[1].ok /\ verifications[1].value)
       /\ verifications[1] = Value(FALSE) =>
            /\ last.status = "fail"
            /\ Includes(last.details, CurStep.text)
            /\ StartsWith(last.details, <<"verification step [">>)
  /\ (spc \in {"returned", "caught"} /\ details # UserCancelMessage
        /\ Includes(ToLowerCase(CurStep.keyword), <<"t", "h", "e", "n">>)
        /\ ~Includes(ToLowerCase(CurStep.keyword), <<"g", "i", "v", "e", "n">>)
        /\ ~Includes(ToLowerCase(CurStep.keyword), <<"w", "h", "e", "n">>)) =>
       Len(verifications) = 1

C7_Witness ==
  /\ spc = "recorded"
  /\ verifications = <<Value(FALSE)>>
  /\ stepResults[Len(stepResults)].status = "fail"

\* processStep has been entered for the current step and executeStep has
\* not yet consumed its outcome.
ProcessStepEntered ==
  \/ spc \in {"plan", "heal", "returned"}
  \/ spc = "caught" /\ executed = <<>> /\ details # UserCancelMessage

Navigated == navigations # <<>>
Planned == spc \in {"plan", "heal"} \/ attempts # <<>>
Verified == verifications # <<>>

\* C8: the keyword, lower-cased, is matched by substring with the
\* precedence given (Precondition), when (Action), then or and
\* (Verification); anything else is Unknown: a warning is logged and the
\* step is planned like an Action.  Every step goes to exactly one handler:
\* direct navigation or planning for a Precondition, planning for an Action,
\* verifyThenStep for a Verification.
C8_KeywordRouting ==
  ProcessStepEntered =>
    LET kw == ToLowerCase(CurStep.keyword)
        route ==
          IF Includes(kw, <<"g", "i", "v", "e", "n">>) THEN "Precondition"
          ELSE IF Includes(kw, <<"w", "h", "e", "n">>) THEN "Action"
          ELSE IF Includes(kw, <<"t", "h", "e", "n">>)
                  \/ Includes(kw, <<"a", "n", "d">>) THEN "Verification"
          ELSE "Unknown"
    IN /\ route = "Precondition" => (Navigated \/ Planned) /\ ~Verified
       /\ route \in {"Action", "Unknown"} => Planned /\ ~Navigated /\ ~Verified
       /\ route = "Verification" => Verified /\ ~Navigated /\ ~Planned
       /\ ~(Navigated /\ Planned)
       /\ warned <=> route = "Unknown"

C8_Witness ==
  /\ spc = "heal"
  /\ CurStep.keyword = KwThenGiven
  /\ Len(attempts) = 1

\* t holds a URL literal: http:// or https:// followed by at least one
\* character that is neither white space nor a quote, bracket or parenthesis.
ContainsUrlLiteral(t) ==
  \E k \in 1..Len(t) :
    \/ /\ HasAt(t, k, <<"h", "t", "t", "p", ":", "/", "/">>)
       /\ k + 7 <= Len(t)
       /\ t[k + 7] \notin UrlStop
    \/ /\ HasAt(t, k, <<"h", "t", "t", "p", "s", ":", "/", "/">>)
       /\ k + 8 <= Len(t)
       /\ t[k + 8] \notin UrlStop

\* C9: a Precondition step with a URL literal navigates once to that
\* literal; it succeeds iff the navigation completed at a location that
\* starts with the literal and is not about:blank.  A mismatch fails with
\* the precondition-verification error; on every failure no planner call,
\* no healing call and no page.act happens, and no candidate is returned.
C9_UrlPrecondition ==
  Navigated =>
    LET n == navigations[1]
        reached == /\ n.result.ok
                   /\ StartsWith(n.result.value, n.url)
                   /\ n.result.value # AboutBlank
    IN /\ Len(navigations) = 1
       /\ Includes(ToLowerCase(CurStep.keyword), <<"g", "i", "v", "e", "n">>)
       /\ Includes(CurStep.text, n.url)
       /\ ContainsUrlLiteral(n.url)
       /\ \A k \in 1..Len(n.url) : n.url[k] \notin UrlStop
       /\ attempts = <<>> /\ heals = <<>> /\ executed = <<>>
       /\ returned.kind # "plan"
       /\ spc \in {"returned", "caught", "recorded"}
       /\ spc = "returned" => reached /\ returned = VoidValue
       /\ spc = "caught" =>
            /\ ~reached
            /\ n.result.ok =>
                 StartsWith(details, <<"precondition verification failed: navigation failed; expected prefix: ">>)
       /\ spc = "recorded" =>
            (stepResults[Len(stepResults)].status = "pass" <=> reached)

C9_Witness ==
  /\ spc = "recorded"
  /\ Navigated
  /\ navigations[1].result.ok
  /\ navigations[1].result.value # AboutBlank
  /\ stepResults[Len(stepResults)].status = "fail"
  /\ rpc = "done"

\* C10: a Precondition step navigates directly iff its text holds a URL
\* literal; without one it is planned by planWhenStep under the
\* self-healing budget of an Action step (at most 3 planner calls, at most
\* 2 healing calls).
C10_NavigationIffUrl ==
  (ProcessStepEntered
     /\ Includes(ToLowerCase(CurStep.keyword), <<"g", "i", "v", "e", "n">>)) =>
    /\ Navigated <=> ContainsUrlLiteral(CurStep.text)
    /\ ~ContainsUrlLiteral(CurStep.text) =>
         /\ Planned
         /\ Len(attempts) <= 3
         /\ Len(heals) <= 2
         /\ spc = "caught" /\ AllHealsSucceeded => Len(attempts) = 3

C10_Witness ==
  /\ spc = "caught"
  /\ Len(attempts) = 3
  /\ Includes(ToLowerCase(CurStep.keyword), <<"g", "i", "v", "e", "n">>)
  /\ ~ContainsUrlLiteral(CurStep.text)

\* C11: the StepResults correspond, position by position, to a prefix of
\* the document-order step list (the background steps, then the steps of
\* the first scenario), and a result is appended for a step before the
\* next one is dispatched: the results never run ahead of, nor fall more
\* than one behind, the number of dispatched steps.
C11_StepOrderPreserved ==
  /\ gherkinDocument = NoDocument => stepResults = <<>>
  /\ gherkinDocument # NoDocument =>
       LET order == gherkinDocument.background \o gherkinDocument.steps IN
       /\ Len(stepResults) <= Len(order)
       /\ Len(stepResults) \in {pos - 1, pos}
       /\ \A k \in 1..Len(stepResults) :
            stepResults[k].step = order[k].keyword \o <<" ">> \o order[k].text

C11_Witness ==
  /\ rpc = "done"
  /\ Len(stepResults) = 2
  /\ gherkinDocument.background # <<>>
  /\ stepResults[1].step = FullStep(gherkinDocument.background[1])
  /\ stepResults[2].step = FullStep(gherkinDocument.steps[1])
  /\ stepResults[1].step # stepResults[2].step

\* C12: every executeStep call appends exactly one StepResult, on the pass
\* path and on every failure path: the number of results is the number of
\* dispatched steps once the call has settled and one less while it is in
\* flight; stepResults only ever grows by one result at its end, at the
\* moment the call settles, and what was appended is never changed or
\* removed.
C12_OneResultPerStep ==
  /\ [](Len(stepResults) = IF spc \in {"none", "recorded"} THEN pos ELSE pos - 1)
  /\ [][ \/ /\ stepResults' = stepResults
            /\ ~(spc # "recorded" /\ spc' = "recorded")
         \/ /\ Len(stepResults') = Len(stepResults) + 1
            /\ SubSeq(stepResults', 1, Len(stepResults)) = stepResults
            /\ spc \in {"returned", "caught"}
            /\ spc' = "recorded" ]_vars

C12_Witness ==
  /\ spc = "recorded"
  /\ Len(stepResults) = 2
  /\ stepResults[1].status = "pass"
  /\ stepResults[2].details = UserCancelMessage \o ScreenshotFailedSuffix(MsgDisk)

\* C13: at most one step is in flight (dispatched and not yet recorded),
\* and a step is dispatched only when the previous executeStep call has
\* settled: its planning is over, its action was executed and its
\* StepResult is recorded.
C13_StrictlySequential ==
  /\ [](pos - Len(stepResults) \in {0, 1})
  /\ [][pos' # pos =>
          /\ pos' = pos + 1
          /\ spc \in {"none", "recorded"}
          /\ Len(stepResults) = pos
          /\ attempts = <<>>
          /\ heals = <<>>]_vars

C13_Witness ==
  /\ pos = 2
  /\ spc = "plan"
  /\ Len(stepResults) = 1
  /\ stepResults[1].status = "pass"

\* The single call is a planner call whose two collaborator calls answered
\* (no fill instruction, LLM call or locate call threw).
PlannerLocated ==
  /\ call.op = "planWhenStep"
  /\ call.llm.ok
  /\ call.obs.ok
  /\ (call.result.ok \/ call.result.error.message # MsgTimeout)

\* C14: one planning attempt yields exactly one Candidate Action, which is
\* one of the located candidates, or a thrown failure; never an empty
\* result.  Zero located candidates is always the element-not-found
\* failure.
C14_OneCandidateOrFailure ==
  call.op = "planWhenStep" =>
    /\ call.result.ok =>
         /\ PlannerLocated
         /\ \E k \in 1..Len(call.obs.value) :
              call.result.plan = call.obs.value[k]
    /\ ~call.result.ok => "message" \in DOMAIN call.result.error
    /\ (PlannerLocated /\ Len(call.obs.value) = 0) =>
         /\ ~call.result.ok
         /\ StartsWith(call.result.error.message, <<"element not found: \"">>)
         /\ Includes(call.result.error.message, call.llm.value.observeInstruction)

C14_Witness ==
  /\ PlannerLocated
  /\ Len(call.obs.value) = 0
  /\ ~call.result.ok
  /\ call.llm.value.intendedAction = "unknown"

\* C15: with exactly one located candidate the planner returns it
\* unfiltered whatever the intent, even when its method is incompatible
\* with the intent; with intent unknown it returns the first candidate of
\* the original ordering even when there are several.
C15_FilterOnlyWhenAmbiguous ==
  PlannerLocated =>
    /\ Len(call.obs.value) = 1 =>
         /\ call.result.ok
         /\ call.result.plan = call.obs.value[1]
    /\ (call.llm.value.intendedAction = "unknown" /\ Len(call.obs.value) >= 1) =>
         /\ call.result.ok
         /\ call.result.plan = call.obs.value[1]

C15_Witness ==
  /\ PlannerLocated
  /\ call.obs.value = <<CandBare>>
  /\ call.llm.value.intendedAction = "click"
  /\ call.result.ok
  /\ call.result.plan = CandBare

\* C16: with more than one candidate and a known intent the survivors are
\* the candidates whose method name is compatible with the intent (click:
\* click; fill: fill or type; scroll: the alias set; no method name: never);
\* the result is the first survivor in the original ordering, and the
\* intent-mismatch failure (no fallback to the first candidate) when there
\* is none.
C16_FirstCompatibleOrMismatch ==
  (PlannerLocated /\ Len(call.obs.value) > 1
     /\ call.llm.value.intendedAction # "unknown") =>
    LET intent == call.llm.value.intendedAction
        observed == call.obs.value
        Compatible(c) ==
          /\ "method" \in DOMAIN c
          /\ CASE intent = "click" ->
                    ToLowerCase(c.method) = <<"c", "l", "i", "c", "k">>
                [] intent = "fill" ->
                    ToLowerCase(c.method) \in
                      { <<"f", "i", "l", "l">>, <<"t", "y", "p", "e">> }
                [] intent = "scroll" -> ToLowerCase(c.method) \in SCROLL_METHODS
                [] OTHER -> MethodMatchesIntent(c, intent)
        survivors == {k \in 1..Len(observed) : Compatible(observed[k])}
    IN IF survivors = {}
       THEN /\ ~call.result.ok
            /\ call.result.error.message =
                 <<"no element matches the AI intent [", intent, "]">>
       ELSE /\ call.result.ok
            /\ \E k \in survivors :
                 /\ \A k2 \in survivors : k <= k2
                 /\ call.result.plan = observed[k]

C16_Witness ==
  /\ PlannerLocated
  /\ call.llm.value.intendedAction = "fill"
  /\ call.obs.value = <<CandBare, CandType, CandFill>>
  /\ call.result.ok
  /\ call.result.plan = CandType

\* Row a of the extracted rows has, for every column of the expected row,
\* a value of that column of which the expected value is a substring.
FieldsAreSubstrings(expectedRow, actualRow) ==
  \A f \in 1..Len(expectedRow) :
    \E g \in 1..Len(actualRow) :
      /\ actualRow[g][1] = expectedRow[f][1]
      /\ Includes(actualRow[g][2], expectedRow[f][2])

\* C17: a table-driven verification passes iff every expected row has at
\* least one extracted row in which every expected column value is a
\* substring (case-sensitive) of the extracted value of that column, for
\* every expected and extracted value, empty strings included; it fails
\* when no row is extracted.
C17_TablePassIffSubstring ==
  call.op = "verifyTable" =>
    call.result =
      (\A e \in 1..Len(call.table) :
         \E a \in 1..Len(call.extractedData) :
           FieldsAreSubstrings(call.table[e], call.extractedData[a]))

\* The permutations of 1..n, and a sequence rearranged by one of them.
PermutationsOf(n) ==
  {p \in [1..n -> 1..n] : \A a, b \in 1..n : a # b => p[a] # p[b]}
Permuted(seq, p) == [k \in 1..Len(seq) |-> seq[p[k]]]

\* C18: the result of a table-driven verification is the same for every
\* permutation of the expected rows and every permutation of the extracted
\* rows, and one extracted row may satisfy several expected rows: a single
\* extracted row that matches all of them makes the step pass.
C18_TableOrderIndependent ==
  call.op = "verifyTable" =>
    /\ \A p \in PermutationsOf(Len(call.table)),
          q \in PermutationsOf(Len(call.extractedData)) :
         VerifyTable(Permuted(call.table, p), Permuted(call.extractedData, q))
           = call.result
    /\ (\E a \in 1..Len(call.extractedData) :
          \A e \in 1..Len(call.table) :
            RowMatches(call.table[e], call.extractedData[a]))
         => call.result

C18_Witness ==
  /\ call.op = "verifyTable"
  /\ Len(call.table) = 2
  /\ call.table[1] # call.table[2]
  /\ Len(call.extractedData) = 2
  /\ call.extractedData[1] # call.extractedData[2]
  /\ RowMatches(call.table[1], call.extractedData[2])
  /\ RowMatches(call.table[2], call.extractedData[2])
  /\ ~RowMatches(call.table[1], call.extractedData[1])
  /\ call.result

\* C19: the actual text of a text assertion is the extraction field when
\* it is a string, else the page_text field when that is a string, else
\* the empty string; toContain holds iff expected is a substring of it,
\* notToContain iff it is not, toEqual iff the two are equal.  With the
\* extraction Welcome back, Alice! Welcome. and toContain Welcome the
\* verification passes.
C19_TextAssertion ==
  call.op = "verifyText" =>
    LET r == call.extracted
        actual ==
          IF "extraction" \in DOMAIN r /\ r.extraction.type = "string"
          THEN r.extraction.value
          ELSE IF "page_text" \in DOMAIN r /\ r.page_text.type = "string"
          THEN r.page_text.value
          ELSE <<>>
        expected == call.assertion.expected
        isSubstring ==
          \E k \in 0..Len(actual) :
            /\ k + Len(expected) <= Len(actual)
            /\ \A j \in 1..Len(expected) : actual[k + j] = expected[j]
    IN /\ call.actual = actual
       /\ call.assertion.operator = "toContain" => (call.result <=> isSubstring)
       /\ call.assertion.operator = "notToContain" => (call.result <=> ~isSubstring)
       /\ call.assertion.operator = "toEqual" => (call.result <=> actual = expected)
       /\ (r = [extraction |-> Str(ActualWelcomeBack)]
            /\ call.assertion = [expected |-> ExpectedWelcome, operator |-> "toContain"])
           => call.result

C19_Witness ==
  /\ call.op = "verifyText"
  /\ call.extracted = [extraction |-> Str(ActualWelcomeBack)]
  /\ call.assertion = [expected |-> ExpectedWelcome, operator |-> "toContain"]
  /\ call.result

\* C20: when the locate query of an element_state assertion returns no
\* candidate the result is true iff the check is not_exists, every other
\* check yields false, and no locator query is made.
C20_AbsentElement ==
  (call.op = "verifyState" /\ Len(call.observed) = 0) =>
    /\ call.result <=> call.plan.assertion.check = "not_exists"
    /\ ~call.probe.made

C20_Witness ==
  /\ call.op = "verifyState"
  /\ Len(call.observed) = 0
  /\ call.plan.assertion.check = "not_exists"
  /\ call.result
  /\ ~call.probe.made

\* C21: with at least one located candidate, an exception of the locator
\* query of any check (count, isVisible, isHidden, isEnabled, isDisabled,
\* isChecked, inputValue) is caught: the element_state branch returns
\* false, for the negative checks hidden, disabled, unchecked and
\* not_exists as well.
C21_ProbeExceptionIsFalse ==
  (call.op = "verifyState" /\ Len(call.observed) > 0) =>
    /\ call.result \in BOOLEAN
    /\ (call.probe.made /\ ~call.probe.outcome.ok) => call.result = FALSE

C21_Witness ==
  /\ call.op = "verifyState"
  /\ Len(call.observed) > 0
  /\ call.probe.made
  /\ ~call.probe.outcome.ok
  /\ call.plan.assertion.check = "unchecked"
  /\ call.result = FALSE

\* The rows of a table that have two populated leading columns, and the
\* instructions for them in table order.
RECURSIVE InstructionsForPopulatedRows(_)
InstructionsForPopulatedRows(table) ==
  IF table = <<>> THEN <<>>
  ELSE LET row == Head(table)
           rest == InstructionsForPopulatedRows(Tail(table))
       IN IF Len(row) >= 2 /\ row[1][2] # <<>> /\ row[2][2] # <<>>
          THEN << <<"'">> \o row[1][2] \o <<"' field: type [">> \o row[2][2]
                    \o <<"]">> >> \o rest
          ELSE rest

\* C22: fillFormFromTable issues, in table order, one fill instruction per
\* row with two populated leading columns (field name and value by
\* position); a row with fewer than two non-empty columns is skipped and
\* issues no instruction, and never makes the call throw or stops the
\* rows after it.
C22_FillPerValidRow ==
  (call.op = "fillFormFromTable" /\ call.result.ok) =>
    call.issued = InstructionsForPopulatedRows(call.table)

\* C23: resetForNewScenario(text) on a context in any state gives a
\* context with no results, a null document, originalScenario = text and
\* the mode it had; applying it again with the same text changes nothing.
C23_ResetForNewScenario ==
  call.op = "resetForNewScenario" =>
    /\ call.once.stepResults = <<>>
    /\ call.once.gherkinDocument = [null |-> TRUE]
    /\ call.once.originalScenario = call.newScenario
    /\ call.once.mode = call.context.mode
    /\ call.twice = call.once

C23_Witness ==
  /\ call.op = "resetForNewScenario"
  /\ Len(call.context.stepResults) = 2
  /\ call.context.gherkinDocument # NoDocument
  /\ call.context.originalScenario # call.newScenario
  /\ call.context.mode = "interactive:auto"
  /\ call.once.stepResults = <<>>

\* C24: a failed step whose screenshot (or the creation of its directory)
\* fails as well is still recorded, exactly once, with status fail; its
\* details begin with the message of the original failure and the
\* screenshot failure is appended to it; run goes to its finally block
\* through the step-failure error of executeStep.
C24_ScreenshotBestEffort ==
  (spc = "recorded" /\ stepResults # <<>>
     /\ stepResults[Len(stepResults)].status = "fail") =>
    LET last == stepResults[Len(stepResults)] IN
    /\ Len(stepResults) = pos
    /\ \A k \in 1..(Len(stepResults) - 1) : stepResults[k].status = "pass"
    /\ details # <<>>
    /\ StartsWith(last.details, details)
    /\ \/ last.details = details
       \/ \E msg \in {MsgDisk, MsgTimeout} :
            last.details = details \o <<"\nthe screenshot failed too: ">> \o msg
    /\ last.screenshotPath = "undefined" => last.details # details
    /\ rpc \in {"finally", "done"}

C24_Witness ==
  /\ spc = "recorded"
  /\ rpc = "done"
  /\ Len(stepResults) = 2
  /\ stepResults[2].status = "fail"
  /\ verifications = <<Value(FALSE)>>
  /\ stepResults[2].details =
       VerificationFailedMessage(TxtSee)
         \o <<"\nthe screenshot failed too: ">> \o MsgTimeout

\* A key is a credential-like name: it is one of the sensitive names when
\* letter case is ignored, or the report's own key test accepts it.
CredentialLikeKey(key) ==
  \/ ToLowerCase(key) \in SensitiveNames
  \/ shouldRedactKey(key)

\* The command with the value of every credential-like key, at any depth
\* inside objects and arrays, replaced and every other value kept.
RECURSIVE WithCredentialsReplaced(_)
WithCredentialsReplaced(v) ==
  IF v.t = "array"
  THEN [t |-> "array",
        items |-> [k \in 1..Len(v.items) |-> WithCredentialsReplaced(v.items[k])]]
  ELSE IF v.t = "object"
  THEN [t |-> "object",
        entries |-> [k \in 1..Len(v.entries) |->
          [key |-> v.entries[k].key,
           value |-> IF CredentialLikeKey(v.entries[k].key)
                     THEN [t |-> "string", v |-> "[REDACTED]"]
                     ELSE WithCredentialsReplaced(v.entries[k].value)]]]
  ELSE v

\* C25: in the persisted report the value of every field of a command
\* record whose key is a credential-like name, compared without regard to
\* letter case, at any nesting depth inside objects and arrays, is
\* [REDACTED]; the values under other keys are written unchanged, and the
\* command held in the StepResult is not modified.
C25_SensitiveKeysRedacted ==
  call.op = "redact" =>
    /\ call.result = WithCredentialsReplaced(call.command)
    /\ call.stored = call.command

\* The buffer after one step: the same lines, or the same lines with one
\* line added at the end and, when the buffer was full, the oldest dropped.
AppendedOrSame(before, after) ==
  \/ after = before
  \/ /\ after # <<>>
     /\ \/ after = Append(before, after[Len(after)])
        \/ /\ Len(before) = BufferCap
           /\ after = Append(Tail(before), after[Len(after)])

\* The most recent lines of a buffer, five at most, oldest first.
MostRecentFive(buffer) ==
  LET n == Len(buffer)
      k == IF n < 5 THEN n ELSE 5
  IN  [j \in 1..k |-> buffer[n - k + j]]

\* The lines were delivered in the order they are listed.
InArrivalOrder(lines, Stamp(_)) ==
  \A j \in 1..Len(lines), k \in 1..Len(lines) :
    j < k => Stamp(lines[j]) < Stamp(lines[k])
ConsoleStamp(line) == line.text
NetworkStamp(line) == line.url

\* C26: the console buffer and the network-error buffer never hold more
\* than the fixed count of lines and change only by a line added at the
\* end, the oldest dropped when full; they hold only console messages of
\* type error or warning, failed requests and responses with status 400
\* or more; a healing prompt lists the five most recent lines of each
\* buffer at most, in arrival order, and assembling it leaves both buffers
\* as they were.
C26_DiagnosticBuffers ==
  /\ [](/\ Len(consoleLogs) <= BufferCap
        /\ Len(networkErrors) <= BufferCap
        /\ \A j \in 1..Len(consoleLogs) :
             consoleLogs[j].type \in {"error", "warning"}
        /\ \A j \in 1..Len(networkErrors) :
             networkErrors[j].status = 0 \/ networkErrors[j].status >= 400
        /\ InArrivalOrder(consoleLogs, ConsoleStamp)
        /\ InArrivalOrder(networkErrors, NetworkStamp)
        /\ call.op = "healingPrompt" =>
             /\ Len(call.prompt.logs.console) <= 5
             /\ Len(call.prompt.logs.network) <= 5
             /\ call.prompt.logs.console =
                  IF consoleLogs = <<>> THEN NoneText
                  ELSE MostRecentFive(consoleLogs)
             /\ call.prompt.logs.network =
                  IF networkErrors = <<>> THEN NoneText
                  ELSE MostRecentFive(networkErrors))
  /\ [][/\ AppendedOrSame(consoleLogs, consoleLogs')
        /\ AppendedOrSame(networkErrors, networkErrors')
        /\ (call' # call \/ heals' # heals) =>
             UNCHANGED <<consoleLogs, networkErrors>>]_vars

C26_Witness ==
  /\ call.op = "healingPrompt"
  /\ eventCount = MaxEvents
  /\ Len(consoleLogs) = BufferCap
  /\ consoleLogs[1].text = 2
  /\ call.prompt.logs.console = consoleLogs
  /\ call.prompt.logs.network = NoneText

\* run has settled: its promise is resolved or rejected.
RunSettled == rpc = "done"

\* C27: whatever normalization and the steps did (all passed, a step
\* failed, normalization threw, the plan was declined), the only errors
\* run rejects with are those of the directory creation ahead of its try
\* block and of the calls of its finally block; when these succeed run
\* resolves with the page listeners removed, the tracing stopped, the
\* summary of the final results logged and the report of the final
\* results written, and no step activity follows.
C27_RunResolvesAndCleansUp ==
  /\ []((RunSettled /\ rejection = NoError) =>
         /\ listeners = FALSE
         /\ tracing = "stopped"
         /\ summary.logged
         /\ summary.total = Len(stepResults)
         /\ summary.failed = IF HasFailed THEN 1 ELSE 0
         /\ report.written
         /\ report.results = stepResults
         /\ report.plan = gherkinDocument
         /\ PreviousStepSettled)
  /\ [][/\ rejection' # rejection => rpc \in {"idle", "finally"}
        /\ RunSettled => UNCHANGED <<stepResults, spc, pos, report, summary>>]_vars

C27_Witness ==
  /\ RunSettled
  /\ rejection = NoError
  /\ HasFailed
  /\ Len(stepResults) = 2
  /\ report.written
  /\ summary.logged
  /\ summary.passed = 1
  /\ tracing = "stopped"

\* C28: after run has completed, the context holds no result with status
\* fail only if every background and scenario step of the normalized
\* scenario was executed and passed.
C28_NoFailureMeansAllPassed ==
  (RunSettled /\ rejection = NoError /\ ~HasFailed) =>
    /\ gherkinDocument # NoDocument
    /\ Len(stepResults) = Len(AllSteps(gherkinDocument))
    /\ \A k \in 1..Len(stepResults) : stepResults[k].status = "pass"

\* The plan was shown and the question about it answered.
PlanAnswered ==
  /\ gherkinDocument # NoDocument
  /\ rpc # "confirmPlan"

\* The steps whose question has been asked: every dispatched step but the
\* one that is waiting for its answer.
StepsAsked == IF spc = "confirm" THEN pos - 1 ELSE pos

\* C29: a run in autonomous mode never asks for confirmation; a run in
\* interactive mode asks once for the plan it has produced and once
\* before each step it dispatches; a run in interactive:auto mode asks
\* once for the plan it has produced and never before a step.
C29_ConfirmationsPerMode ==
  /\ mode = "autonomous" => confirmations = NoConfirmations
  /\ mode = "interactive" =>
       /\ confirmations.plan = IF PlanAnswered THEN 1 ELSE 0
       /\ confirmations.step = StepsAsked
       /\ ProcessStepEntered => confirmations.step = pos
  /\ mode = "interactive:auto" =>
       /\ confirmations.plan = IF PlanAnswered THEN 1 ELSE 0
       /\ confirmations.step = 0

C29_Witness ==
  /\ mode = "interactive"
  /\ RunSettled
  /\ rejection = NoError
  /\ confirmations = [plan |-> 1, step |-> 2]
  /\ Len(stepResults) = 2
  /\ ~HasFailed

\* The answer that ends a session.
IsExit(userInput) ==
  /\ userInput # NoInput
  /\ ToLowerCase(Trim(userInput)) = TxtExit

\* C30: a session in autonomous mode runs exactly one scenario and ends;
\* a session in an interactive mode ends only after the answer exit,
\* whatever the scenarios before it did; the browser is started once and
\* one context serves every scenario, and the report of a scenario holds
\* the results of that scenario only; a session that has ended has closed
\* the browser once and the command line interface once.
C30_SessionLoop ==
  session.pc # "start" =>
    /\ session.inits <= 1
    /\ session.contexts <= 1
    /\ \A k \in 1..Len(session.reports) :
         session.reports[k].results = session.reports[k].produced
    /\ (session.mode = "autonomous" /\ session.pc \in {"finally", "exited"})
         => session.runs = 1
    /\ session.mode = "autonomous" => session.runs <= 1
    /\ (session.mode # "autonomous" /\ session.pc \in {"finally", "exited"})
         => IsExit(session.lastInput)
    /\ session.pc = "exited" =>
         /\ session.browserCloses = 1
         /\ session.cliCloses = 1
         /\ ~session.rejected

\* The positions of the result list that hold a failed step.
FailedPositions == {k \in 1..Len(stepResults) : stepResults[k].status = "fail"}

\* C31: in every state of a run the result list holds at most one result
\* with status fail, which is then its last element, every other result
\* has status pass, none has status skipped, and the steps after a failed
\* one have no result.
C31_AtMostOneFailureLast ==
  /\ Cardinality(FailedPositions) <= 1
  /\ FailedPositions \subseteq {Len(stepResults)}
  /\ \A k \in 1..Len(stepResults) :
       /\ stepResults[k].status \in {"pass", "fail"}
       /\ stepResults[k].status # "skipped"
       /\ k \notin FailedPositions => stepResults[k].status = "pass"
  /\ (RunSettled /\ FailedPositions # {}) =>
       \/ gherkinDocument = NoDocument
       \/ Len(stepResults) <= Len(AllSteps(gherkinDocument))

C31_Witness ==
  /\ RunSettled
  /\ gherkinDocument # NoDocument
  /\ Len(AllSteps(gherkinDocument)) = 2
  /\ Len(stepResults) = 1
  /\ FailedPositions = {1}
  /\ Navigated

\* The last result is the failed result of the step whose action threw.
ActFailureRecorded(results) ==
  /\ results # <<>>
  /\ results[Len(results)].status = "fail"
  /\ results[Len(results)].step = FullStep(CurStep)
  /\ StartsWith(results[Len(results)].details, MsgTimeout)

Range(seq) == {seq[k] : k \in 1..Len(seq)}

\* C33: for a step that goes to the planner with a table, every planner
\* attempt of the self-healing loop begins with the form fill: an attempt
\* that reached the executor LLM has issued the instruction of every
\* row the fill accepts, those of the rows with two non-empty columns
\* among them, so k such attempts issue each k times; an attempt whose
\* fill instruction threw is a failed planner attempt that counts among
\* the three of the loop.
C33_FillInEveryAttempt ==
  attempts # <<>> =>
    LET all == FillInstructions(CurStep.table) IN
    /\ Len(attempts) <= 3
    /\ Range(InstructionsForPopulatedRows(CurStep.table)) \subseteq Range(all)
    /\ \A k \in 1..Len(attempts) :
         LET a == attempts[k].result IN
         /\ a.llmCalled => a.fills = Len(all)
         /\ a.ok => a.llmCalled
         /\ ~a.llmCalled =>
              /\ ~a.ok
              /\ a.fills \in 1..Len(all)
              /\ k < Len(attempts) \/ spc \in {"plan", "heal", "caught"}
         /\ CurStep.table = NoTable => a.fills = 0

C33_Witness ==
  /\ spc = "returned"
  /\ CurStep.table = TableForm
  /\ Len(attempts) = 3
  /\ ~attempts[1].result.llmCalled
  /\ attempts[2].result.llmCalled /\ ~attempts[2].result.ok
  /\ attempts[2].result.fills = 1
  /\ attempts[3].result.ok
  /\ attempts[3].result.fills = 1

\* C34: the handlers of a run are registered once at most and are removed
\* when the run ends, whether it passed, failed, was cancelled or
\* rejected; after any number of scenarios in a session no handler of an
\* earlier run is registered, so while a run works on its scenario only
\* its own handlers receive a page event and one event adds one line at
\* most.
C34_HandlersRemoved ==
  session.pc # "start" =>
    /\ session.handlers = {}
    /\ Cardinality(session.handlersInRun) <= 1
    /\ session.handlersInRun \subseteq {session.runs}

C34_Witness ==
  /\ session.pc = "loop"
  /\ session.runs = 2
  /\ session.handlersInRun = {2}
  /\ session.handlers = {}
  /\ Len(session.reports) = 2
  /\ session.reports[1].produced # <<>>

\* The last question of the run was answered with no.
Declined == lastAnswer.given /\ ~lastAnswer.proceed

\* The plan was declined: no step had been asked about.
PlanDeclined == Declined /\ confirmations.step = 0

\* A step was declined.
StepDeclined == Declined /\ confirmations.step > 0

\* C35: after the plan is declined no step is dispatched and the result
\* list stays empty, and the settled run has written the report (of the
\* empty list) unless writing it threw; after a step is declined in
\* interactive mode nothing is navigated, planned, verified or executed
\* for it, it is recorded once as failed with the cancel message, no
\* later step is dispatched and the run goes to its finally block.
C35_DeclinedPlanAndStep ==
  /\ [](/\ PlanDeclined =>
             /\ StartsWithInteractive(mode)
             /\ rpc \in {"finally", "done"}
             /\ pos = 0 /\ spc = "none"
             /\ stepResults = <<>>
             /\ (RunSettled /\ rejection = NoError) =>
                  report.written /\ report.results = <<>>
        /\ StepDeclined =>
             /\ mode = "interactive"
             /\ confirmations.step = pos
             /\ attempts = <<>> /\ heals = <<>>
             /\ executed = <<>> /\ navigations = <<>> /\ verifications = <<>>
             /\ spc \in {"caught", "recorded"}
             /\ spc = "caught" =>
                  details = UserCancelMessage /\ Len(stepResults) = pos - 1
             /\ spc = "recorded" =>
                  /\ rpc \in {"finally", "done"}
                  /\ Len(stepResults) = pos
                  /\ stepResults[pos].status = "fail"
                  /\ stepResults[pos].step = FullStep(CurStep)
                  /\ StartsWith(stepResults[pos].details, UserCancelMessage)
                  /\ \A k \in 1..(pos - 1) : stepResults[k].status = "pass")
  /\ [][Declined => UNCHANGED <<pos, lastAnswer, confirmations>>]_vars

C35_Witness ==
  /\ RunSettled
  /\ PlanDeclined
  /\ gherkinDocument # NoDocument
  /\ Len(AllSteps(gherkinDocument)) = 2
  /\ confirmations = [plan |-> 1, step |-> 0]
  /\ stepResults = <<>>
  /\ report.written
  /\ report.results = <<>>

\* A run in this mode asks for a confirmation.
AsksForConfirmation(m) == StartsWithInteractive(m) \/ ConfirmsEachStep(m)

\* C36: the mode main hands to the Execution Context is one of
\* autonomous, interactive and interactive:auto, and it decides the same
\* way whether a scenario file is required, whether no confirmation is
\* asked and whether the session ends after one scenario.
C36_ModeDecidesConsistently ==
  session.pc # "start" =>
    /\ session.mode \in ExecutionMode
    /\ FileRequired(session.mode) <=> ~AsksForConfirmation(session.mode)
    /\ FileRequired(session.mode) <=> (AfterRun(session.mode) = "finally")
    /\ session.executionContext # NoContext =>
         session.executionContext.mode = session.mode

\* The healing call whose snapshot could not be captured.
SnapshotFailedIn(heal) == heal.prompt.accessibilityTree # TreeJson

\* C37: a failed accessibility snapshot does not end the healing: the
\* prompt of that healing call holds the placeholder text with the
\* message of the snapshot error, the healing LLM is called with it, the
\* snapshot error never becomes the error of the step, and when the
\* healing LLM answers the next planner attempt follows with the
\* instruction it proposed.
C37_SnapshotFailureTolerated ==
  /\ \A k \in 1..Len(heals) :
       /\ heals[k].prompt.accessibilityTree
            \in {TreeJson, SnapshotFailedText(MsgTimeout)}
       /\ (SnapshotFailedIn(heals[k]) /\ heals[k].result.ok) =>
            \/ /\ Len(attempts) > k
               /\ attempts[k + 1].text =
                    heals[k].result.value.alternativeInstruction
            \/ /\ k = Len(heals)
               /\ spc = "plan"
               /\ currentText = heals[k].result.value.alternativeInstruction
  /\ (spc = "caught" /\ heals # <<>>) =>
       ~StartsWith(details, <<"accessibility snapshot failed: ">>)

C37_Witness ==
  /\ Len(heals) = 2
  /\ Len(attempts) = 3
  /\ SnapshotFailedIn(heals[1])
  /\ ~SnapshotFailedIn(heals[2])
  /\ heals[1].prompt.accessibilityTree = SnapshotFailedText(MsgTimeout)
  /\ attempts[2].text = heals[1].result.value.alternativeInstruction
  /\ attempts[3].result.ok

\* An attempt of the recordStep call succeeded.
SomeAttemptSucceeded == \E k \in 1..Len(call.attempts) : call.attempts[k].ok

\* C38: one recordStep call makes maxRetries + 1 attempts at most, where
\* maxRetries is the number in RECORDER_MAX_RETRIES when that is a number
\* not below 0 and 1 otherwise; every attempt after the first follows a
\* confirmed retry question and uses the corrected instruction entered
\* for it; recordedSteps grows by exactly one entry, holding the intent
\* and the instruction of the successful attempt, iff an attempt
\* succeeded, and is unchanged otherwise; recordStep does not throw.
C38_RecordStepAttempts ==
  call.op = "recordStep" =>
    /\ ~call.rawRetries.defined => call.maxRetries = 1
    /\ call.rawRetries = EnvText(<<"0">>) => call.maxRetries = 0
    /\ call.rawRetries = EnvText(<<"2">>) => call.maxRetries = 2
    /\ call.rawRetries \in {EnvText(<<"-", "1">>), EnvText(<<"a", "b", "c">>)}
         => call.maxRetries = 1
    /\ call.maxRetries >= 0
    /\ Len(call.attempts) <= call.maxRetries + 1
    /\ Len(call.corrections) = call.retryCount
    /\ call.questions >= call.retryCount
    /\ Len(call.attempts) \in {call.retryCount, call.retryCount + 1}
    /\ \A k \in 1..Len(call.attempts) :
         /\ call.attempts[k].instruction =
              IF k = 1 THEN call.userInstruction ELSE call.corrections[k - 1]
         /\ call.attempts[k].ok => k = Len(call.attempts)
    /\ IF SomeAttemptSucceeded
       THEN LET last == call.attempts[Len(call.attempts)] IN
            call.recordedSteps =
              Append(call.before, [type |-> last.intent,
                                   userInstruction |-> last.instruction])
       ELSE call.recordedSteps = call.before
    /\ ~call.threw
    /\ call.pc = "done" => (call.success <=> SomeAttemptSucceeded)

C38_Witness ==
  /\ call.op = "recordStep"
  /\ call.pc = "done"
  /\ call.maxRetries = 2
  /\ Len(call.attempts) = 3
  /\ call.attempts[3].ok
  /\ call.attempts[3].instruction # call.userInstruction
  /\ call.before # <<>>
  /\ Len(call.recordedSteps) = 2

\* The verification keywords of the fallback rule.
VerificationKeywords ==
  {<<"U+78BA", "U+8A8D">>,
   <<"U+691C", "U+8A3C">>,
   <<"U+8868", "U+793A", "U+3055", "U+308C", "U+3066", "U+3044", "U+308B">>,
   <<"U+542B", "U+307E", "U+308C", "U+3066", "U+3044", "U+308B">>,
   <<"U+7B49", "U+3057", "U+3044">>,
   <<"U+4E00", "U+81F4">>,
   <<"U+542B", "U+3080">>,
   <<"v", "e", "r", "i", "f", "y">>,
   <<"a", "s", "s", "e", "r", "t">>,
   <<"s", "h", "o", "u", "l", "d">>,
   <<"c", "o", "n", "t", "a", "i", "n">>,
   <<"e", "q", "u", "a", "l">>,
   <<"e", "x", "a", "c", "t">>,
   <<"m", "a", "t", "c", "h">>}

\* C39: classify never throws and returns an intent that is action or
\* assertion; when the LLM call fails, the intent is assertion iff the
\* lower-cased instruction contains one of the verification keywords,
\* and action otherwise.
C39_ClassifyNeverThrows ==
  call.op = "classify" =>
    /\ ~call.threw
    /\ call.result.intent \in {"action", "assertion"}
    /\ call.llm.kind = "object" => call.result.intent = call.llm.intent
    /\ call.llm.kind # "object" =>
         (call.result.intent = "assertion"
            <=> \E kw \in VerificationKeywords :
                  \E k \in 1..Len(call.instruction) :
                    /\ k + Len(kw) - 1 <= Len(call.instruction)
                    /\ \A j \in 1..Len(kw) :
                         Lower(call.instruction[k + j - 1]) = kw[j])

C39_Witness ==
  /\ call.op = "classify"
  /\ call.llm.kind = "error"
  /\ call.instruction = <<"T", "i", "t", "l", "e", " ", "M", "a", "t", "c", "h", "e", "s">>
  /\ call.result.intent = "assertion"

====
